---- MODULE Spec2Model ----
(***************************************************************************)
(* A model of the agentic context-and-tool subsystem of AI Coder Pro:      *)
(*   - ContextManager (src/src/services/ContextManager.ts, second copy),   *)
(*   - ToolRegistry and the path policy (src/src/agents/Tooling.ts),       *)
(*   - the filesystem, process and git tools.                              *)
(*                                                                         *)
(* Strings of the ContextManager are modelled by their length: a message   *)
(* content, a query, a retrieved text and an initial summary are a run of  *)
(* n copies of one non-blank letter (one word, no white space), so that    *)
(* trim(), split() and the word statistics of the summarizer are exact     *)
(* functions of n.  Paths are modelled as sequences of characters.         *)
(***************************************************************************)
EXTENDS Integers, Sequences, FiniteSets, TLC

VARIABLES
  \* ---- ContextManager fields
  messages,              \* Message[]: sequence of [role, len, id]
  conversationSummary,   \* length of the running summary string
  hardMaxTokens, targetContextTokens, recentHistoryCount, summarizeMinMessages,
  \* ---- observation of the last ContextManager call
  nextId,                \* identity given to the next appended message
  inputs,                \* number of message-carrying calls made so far
  lastOp,                \* name of the last method that returned
  afterAppend,           \* addMessage: the list right after the append, before
                         \* eviction (<<>> after any other call)
  ctx                    \* getOptimizedContext: length of the returned string
                         \* (NoResult after any other call)

VARIABLES
  \* ---- configuration store and host
  allowedPaths,          \* setting aiCoderPro.allowedPaths: a set of paths
  deniedPaths,           \* setting aiCoderPro.deniedPaths: a set of paths
  \* ---- one evaluation of the path policy
  polPath,               \* the argument rel of isPathAllowed
  polDone,               \* isPathAllowed has returned
  polAllowed             \* the value it returned

VARIABLES
  \* ---- host workspace and one tool call through the registry
  workspaceOpen,         \* vscode.workspace.workspaceFolders?.[0] is defined
  files,                 \* workspace files: a set of [loc, content], one per location
  call                   \* the last ToolRegistry.call: [name, argsGiven, path, content,
                         \* num, handler, handlerResult, settled, result, ops]

VARIABLES
  \* ---- one run_command invocation, event by event
  runPc,                 \* "idle", "returned" (no child was spawned), "pending"
  runArgs,               \* [cmd, timeoutSec, cfgTimeoutSec]
  child,                 \* "none", "alive", "failed" (spawn error), "exited", "closed"
  childCode,             \* exit code passed to the close handler ("" before it)
  killSent,              \* child.kill('SIGKILL') has been called
  timer,                 \* "none", "armed", "fired", "cleared"
  out, err,              \* the closure's buffers
  resolveCalls,          \* number of calls of the promise's resolve function
  promise,               \* [state, value] of the promise run_command returned
  outAtTimeout           \* the value of out when the timer callback ran

VARIABLES
  \* ---- one model reply and its parse
  reply,                 \* the reply text, a sequence of tokens
  replyKind,             \* how the reply carries the project: "tagged", "fenced", "prose"
  sent,                  \* the GeneratedProject the reply was made from
  parsed,                \* what parseProjectFromAnyText returned
  parsePc,               \* "idle", "ready", "done"
  \* ---- one chat turn: parse the reply, repair once, write
  turnPc,                \* "idle", "replied", "repairing", "writing", "written", "done"
  response,              \* the model's reply to the prompt
  repaired,              \* the reply to the repair prompt
  project,               \* what tryParseOrFix returned
  repairCalls,           \* repair completions issued
  writerCalls,           \* calls of writeFilesPayload
  payload,               \* the payload handed to writeFilesPayload
  written,               \* the targets written, in order
  terminal,              \* commands sent to the terminal
  shown,                 \* messages posted to the panel
  \* ---- AgenticWorkflow.runGoal
  wfPc,                  \* "idle", "ready", "loop" (runLoop awaited)
  hasTools,              \* a ToolRegistry was supplied at construction
  hasOrchestrator,       \* an orchestrator was supplied at construction
  goals,                 \* runGoal calls made
  goalResult,            \* how the latest runGoal settled
  progressLines,         \* what the progress callback was called with
  toolCalls,             \* tool invocations
  retrievals,            \* getOptimizedContext calls made by runGoal
  transcript,            \* res.messages of the latest run
  addCalls,              \* the addMessage calls of the latest replay
  replayFrom             \* the id given to the first replayed message

VARIABLES
  \* ---- AgenticWorkflow.analyzeIntent
  intentQuery,           \* the query given to analyzeIntent
  intent,                \* what analyzeIntent returned ("" before the call)
  returned               \* every intent returned so far

VARIABLES
  \* ---- panelVars
  conversationMemory,    \* the chat panel memory: sequence of [role, len, id]
  storedConversation,    \* globalState value under CONVERSATION_STORAGE_KEY
  panelOp,               \* type of the last webview message handled ("idle" before any)
  promptHistory,         \* messages in the history section of the context of the last prompt
  clearedAt,             \* nextId when clearMemory was last handled (0: never)
  prompts                \* number of prompt messages handled

VARIABLES
  \* ---- agentVars
  agentBuild,            \* which copy of BasicAgent runs: "fetch" (BasicAgent.ts) or "undici"
  agentPc,               \* "idle", "fetching", "responded", "settled"
  agentCalls,            \* number of generateCompletion calls started
  agentResponse,         \* the Response fetch resolved with ([status, kind, text])
  agentCause,            \* the error the catch block caught ([name, message]), NoCause if none
  completion             \* the promise generateCompletion returned: [state, value]

VARIABLES
  \* ---- catalogVars
  toolSpecs              \* the catalog runGoal last handed to runLoop: sequence of tool names

VARIABLES
  \* ---- sumVars
  summaryText,           \* conversationSummary as text: sequence of [src, gen, from, to]
  previousSummary,       \* the summary before the last summarization
  lastDigest,            \* what synthesizeSummary returned in the last summarization
  summaries              \* number of summarizations that took effect

VARIABLES
  \* ---- gitVars
  gitPc,                 \* where the running git_commit is: idle, add, commit, done
  gitLog,                \* child processes started and ended by the call, in order
  gitMessage,            \* args.message of the call
  gitRet,                \* the ToolResult the call resolved to
  gitCalls               \* git_commit calls made

VARIABLES
  \* ---- execVars
  flows,                 \* the executeWorkflow calls made: call number -> where it is and what it holds
  microtasks             \* the microtask queue: the calls whose awaited promise has settled, oldest first

VARIABLES
  \* ---- traceVars
  goalEvents             \* what the latest runGoal did, in order: progress lines, the runLoop call and its settlement, addMessage calls

cmVars == <<messages, conversationSummary, hardMaxTokens, targetContextTokens,
            recentHistoryCount, summarizeMinMessages, nextId, inputs, lastOp,
            afterAppend, ctx>>
cfgVars == <<allowedPaths, deniedPaths>>
polVars == <<polPath, polDone, polAllowed>>

toolVars == <<workspaceOpen, files, call>>
procVars == <<runPc, runArgs, child, childCode, killSent, timer, out, err,
              resolveCalls, promise, outAtTimeout>>

parseVars == <<reply, replyKind, sent, parsed, parsePc>>

turnVars == <<turnPc, response, repaired, project, repairCalls, writerCalls,
              payload, written, terminal, shown>>

wfVars == <<wfPc, hasTools, hasOrchestrator, goals, goalResult, progressLines,
            toolCalls, retrievals, transcript, addCalls, replayFrom>>

intentVars == <<intentQuery, intent, returned>>

panelVars == <<conversationMemory, storedConversation, panelOp, promptHistory, clearedAt, prompts>>

agentVars == <<agentBuild, agentPc, agentCalls, agentResponse, agentCause, completion>>

catalogVars == <<toolSpecs>>

sumVars == <<summaryText, previousSummary, lastDigest, summaries>>

gitVars == <<gitPc, gitLog, gitMessage, gitRet, gitCalls>>

execVars == <<flows, microtasks>>

traceVars == <<goalEvents>>

vars == <<cmVars, cfgVars, polVars, toolVars, procVars, parseVars, turnVars,
          wfVars, intentVars, panelVars, agentVars, catalogVars, sumVars,
          gitVars, execVars, traceVars>>

\* An absent option or setting (JavaScript undefined); every real value is >= 0.
Undefined == 0 - 1
\* ctx when the last call was not getOptimizedContext (it returned no string).
NoResult == 0 - 1

\* ------------------------------------------------------------------ bounds
MaxInputs == 3

\* ------------------------------------------------------- program constants
KeepMin == 8
CharsPerTokenCeiling == 5
CharsPerToken == 4
SummaryClip == 1200
MergeCap == 1600
ClipSlack == 40
TruncMarkLen == 13
SentenceLimit == 180
WindowSize == 12
MinWindow == 4
MaxTopics == 6
MinWordLen == 4
KeepFloor == 5
TightFloor == 3
DefaultMaxTokens == 4096
MinMaxTokens == 1024
TargetCeiling == 3072
DefaultRecentHistoryCount == 8
DefaultSummarizeMinMessages == 10
ToolOutputClip == 4000
ToolErrorClip == 2000

\* v ?? d
Nullish(v, d) == IF v = Undefined THEN d ELSE v

\* ------------------------------------------------------------ arithmetic
Max(a, b) == IF a >= b THEN a ELSE b
Min(a, b) == IF a <= b THEN a ELSE b
CeilDiv(a, b) == (a + b - 1) \div b

\* ----------------------------------------------------------- JS helpers
\* Array.prototype.slice(-n): the last n elements; slice(-0) is slice(0), the
\* whole array.
SliceLast(s, n) ==
  IF n = 0 \/ n >= Len(s) THEN s ELSE SubSeq(s, Len(s) - n + 1, Len(s))

RECURSIVE SumLens(_)
SumLens(s) == IF s = <<>> THEN 0 ELSE Head(s).len + SumLens(Tail(s))

RoleLen(r) == CASE r = "user" -> 4 [] r = "assistant" -> 9
                [] r = "system" -> 6 [] r = "tool" -> 4

\* ------------------------------------------------------------- helpers
\* section(title, body) = `### ${title}\n${body.trim()}`; bodyLen is the length
\* of the trimmed body.
section(titleLen, bodyLen) == 4 + titleLen + 1 + bodyLen

safeClip(len, max) ==
  IF len = 0 THEN 0
  ELSE IF len <= max THEN len
  ELSE Max(0, max - ClipSlack) + TruncMarkLen

clipSentence(len) == IF len <= SentenceLimit THEN len ELSE (SentenceLimit - 1) + 1

\* `${m.role}: ${m.content}` lines joined with '\n'
RECURSIVE JoinedLen(_)
JoinedLen(ms) ==
  IF ms = <<>> THEN 0
  ELSE RoleLen(Head(ms).role) + 2 + Head(ms).len
       + (IF Len(ms) > 1 THEN 1 ELSE 0) + JoinedLen(Tail(ms))

\* The same text after String.prototype.trim(): the only blank at either end is
\* the space after the colon of a last line whose content is empty.
TrimmedJoinedLen(ms) ==
  IF ms = <<>> THEN 0
  ELSE JoinedLen(ms) - (IF ms[Len(ms)].len = 0 THEN 1 ELSE 0)

\* ---------------------------------------------------------- summarizer
\* Words of the transcript (extractKeyTopics splits on [^a-z0-9_]+): the role
\* word of every line, then the content word.  A word is coded by a number:
\* 0 is "user", 1 is "assistant", n >= 2 is the run of n letters.
RoleWord(r) == IF r = "user" THEN 0 ELSE 1
WordLen(w) == IF w = 0 THEN 4 ELSE IF w = 1 THEN 9 ELSE w

RECURSIVE TranscriptWords(_)
TranscriptWords(ms) ==
  IF ms = <<>> THEN <<>>
  ELSE <<RoleWord(Head(ms).role)>>
       \o (IF Head(ms).len >= 2 THEN <<Head(ms).len>> ELSE <<>>)
       \o TranscriptWords(Tail(ms))

RECURSIVE CountWord(_, _)
CountWord(w, ws) ==
  IF ws = <<>> THEN 0
  ELSE (IF Head(ws) = w THEN 1 ELSE 0) + CountWord(w, Tail(ws))

\* The keys of the frequency Map, in insertion order, after the length filter.
RECURSIVE FreqKeys(_, _)
FreqKeys(ws, seen) ==
  IF ws = <<>> THEN <<>>
  ELSE LET w == Head(ws) IN
       IF WordLen(w) < MinWordLen \/ w \in seen THEN FreqKeys(Tail(ws), seen)
       ELSE <<w>> \o FreqKeys(Tail(ws), seen \cup {w})

\* Array.prototype.sort by descending count is stable: among equal counts the
\* insertion order is kept.  The first `max` keys are returned.
RECURSIVE TopByCount(_, _, _)
TopByCount(keys, ws, max) ==
  IF keys = <<>> \/ max = 0 THEN <<>>
  ELSE LET best == CHOOSE i \in 1..Len(keys) :
                     /\ \A j \in 1..Len(keys) :
                          CountWord(keys[j], ws) <= CountWord(keys[i], ws)
                     /\ \A j \in 1..(i - 1) :
                          CountWord(keys[j], ws) < CountWord(keys[i], ws)
           rest == SubSeq(keys, 1, best - 1) \o SubSeq(keys, best + 1, Len(keys))
       IN <<keys[best]>> \o TopByCount(rest, ws, max - 1)

extractKeyTopics(ms, max) ==
  LET ws == TranscriptWords(ms) IN TopByCount(FreqKeys(ws, {}), ws, max)

RECURSIVE SumWordLens(_)
SumWordLens(ws) == IF ws = <<>> THEN 0 ELSE WordLen(Head(ws)) + SumWordLens(Tail(ws))

\* Length of bullets.join('\n') for `count` bullets of `total` characters.
BulletsJoinLen(count, total) == total + Max(0, count - 1)

\* "• User: " has 8 characters, "• Assistant: " has 13.
BulletLen(m) == (IF m.role = "user" THEN 8 ELSE 13) + clipSentence(m.len)

\* The loop over the lines of the transcript: a bullet per line whose content is
\* not empty, stopping once the joined bullets exceed maxChars.
RECURSIVE BulletsLoop(_, _, _, _)
BulletsLoop(ms, count, total, maxChars) ==
  IF ms = <<>> THEN BulletsJoinLen(count, total)
  ELSE LET m  == Head(ms)
           c2 == IF m.len > 0 THEN count + 1 ELSE count
           t2 == IF m.len > 0 THEN total + BulletLen(m) ELSE total
       IN IF BulletsJoinLen(c2, t2) > maxChars THEN BulletsJoinLen(c2, t2)
          ELSE BulletsLoop(Tail(ms), c2, t2, maxChars)

\* synthesizeSummary(transcript, maxChars), ms being the window whose lines make
\* the transcript.  "• Topics: " has 10 characters, the topics are joined by ", ".
synthesizeSummary(ms, maxChars) ==
  LET bullets   == BulletsLoop(ms, 0, 0, maxChars)
      topics    == extractKeyTopics(ms, MaxTopics)
      topicLine == IF topics = <<>> THEN 0
                   ELSE 10 + SumWordLens(topics) + 2 * (Len(topics) - 1)
      summary   == IF bullets = 0 THEN topicLine
                   ELSE IF topicLine = 0 THEN bullets
                   ELSE bullets + 1 + topicLine
  IN safeClip(summary, maxChars)

mergeSummaries(prev, next) ==
  IF prev = 0 THEN next
  ELSE IF next = 0 THEN prev
  ELSE LET merged == prev + 2 + next
       IN IF merged > MergeCap THEN safeClip(merged, MergeCap) ELSE merged

\* ---------------------------------------------------- ContextManager
TotalChars(ms) == SumLens(ms)

\* Mutant: the eviction loop written as a single `if` (one message at most).
trimHardMaxOnce(ms, hardMax) ==
  IF Len(ms) > KeepMin /\ TotalChars(ms) > hardMax * CharsPerTokenCeiling
  THEN Tail(ms) ELSE ms

\* Mutant: the loop guard compares the length with 7 instead of 8.
RECURSIVE trimHardMaxKeep7(_, _)
trimHardMaxKeep7(ms, hardMax) ==
  IF Len(ms) > KeepMin - 1 /\ TotalChars(ms) > hardMax * CharsPerTokenCeiling
  THEN trimHardMaxKeep7(Tail(ms), hardMax)
  ELSE ms

RECURSIVE trimHardMax(_, _)
trimHardMax(ms, hardMax) ==
  LET limitChars == hardMax * CharsPerTokenCeiling IN
  IF Len(ms) > KeepMin /\ TotalChars(ms) > limitChars
  THEN trimHardMax(Tail(ms), hardMax)
  ELSE ms

estimateTokens(len) == CeilDiv(len, CharsPerToken)

getRecentHistory(ms, count) == SliceLast(ms, count)

UserAssistantOnly(ms) == SelectSeq(ms, LAMBDA m : m.role \in {"user", "assistant"})

\* summarizeConversation keeping half of the recent-history window, without the
\* floor of five.
summarizeConversationHalf(ms, summary, recentCount, minMessages) ==
  LET window == SliceLast(UserAssistantOnly(ms), WindowSize) IN
  IF Len(ms) < minMessages \/ Len(window) < MinWindow
  THEN [messages |-> ms, summary |-> summary, effective |-> FALSE]
  ELSE [messages  |-> SliceLast(ms, recentCount \div 2),
        summary   |-> safeClip(mergeSummaries(summary,
                                 synthesizeSummary(window, SummaryClip)), SummaryClip),
        effective |-> TRUE]

\* summarizeConversation whose truncation keeps the oldest messages, slice(0, keep).
summarizeConversationKeepOldest(ms, summary, recentCount, minMessages) ==
  LET window == SliceLast(UserAssistantOnly(ms), WindowSize) IN
  IF Len(ms) < minMessages \/ Len(window) < MinWindow
  THEN [messages |-> ms, summary |-> summary, effective |-> FALSE]
  ELSE [messages  |-> SubSeq(ms, 1, Min(Len(ms), Max(KeepFloor, recentCount \div 2))),
        summary   |-> safeClip(mergeSummaries(summary,
                                 synthesizeSummary(window, SummaryClip)), SummaryClip),
        effective |-> TRUE]

\* summarizeConversation without its first early return (the message-count test).
summarizeConversationAnyCount(ms, summary, recentCount, minMessages) ==
  LET window == SliceLast(UserAssistantOnly(ms), WindowSize) IN
  IF Len(window) < MinWindow
  THEN [messages |-> ms, summary |-> summary, effective |-> FALSE]
  ELSE [messages  |-> SliceLast(ms, Max(KeepFloor, recentCount \div 2)),
        summary   |-> safeClip(mergeSummaries(summary,
                                 synthesizeSummary(window, SummaryClip)), SummaryClip),
        effective |-> TRUE]

\* summarizeConversation as a function of the fields it reads: the new
\* [messages, summary, effective].
summarizeConversation(ms, summary, recentCount, minMessages) ==
  LET window == SliceLast(UserAssistantOnly(ms), WindowSize) IN
  IF Len(ms) < minMessages \/ Len(window) < MinWindow
  THEN [messages |-> ms, summary |-> summary, effective |-> FALSE]
  ELSE LET newlySynthesized == synthesizeSummary(window, SummaryClip)
           merged == mergeSummaries(summary, newlySynthesized)
           keep   == Max(KeepFloor, recentCount \div 2)
       IN [messages  |-> SliceLast(ms, keep),
           summary   |-> safeClip(merged, SummaryClip),
           effective |-> TRUE]

\* parts.join('\n\n') of the sections that are present (a length of -1 marks an
\* absent section).
RECURSIVE JoinParts(_)
JoinParts(ps) ==
  IF ps = <<>> THEN 0
  ELSE IF Head(ps) < 0 THEN JoinParts(Tail(ps))
  ELSE LET rest == JoinParts(Tail(ps))
           more == \E i \in 1..Len(Tail(ps)) : Tail(ps)[i] >= 0
       IN Head(ps) + (IF more THEN 2 ELSE 0) + rest

\* The string getOptimizedContext assembles from a state: titles 'RAG Context'
\* (11), 'Conversation Summary' (20), 'Recent Conversation' (19) and
\* 'Current Query' (13).
Assemble(ragLen, summary, recentMsgs, queryLen) ==
  JoinParts(<< IF ragLen > 0 THEN section(11, ragLen) ELSE -1,
               IF summary > 0 THEN section(20, summary) ELSE -1,
               IF recentMsgs # <<>> THEN section(19, TrimmedJoinedLen(recentMsgs)) ELSE -1,
               section(13, queryLen) >>)

\* getOptimizedContext whose tighter rebuild takes half the recent-history
\* window, without the floor of three.
getOptimizedContextHalf(ms, summary, recentCount, minMessages, target, queryLen, ragLen) ==
  LET first == Assemble(ragLen, summary, getRecentHistory(ms, recentCount), queryLen)
      s     == summarizeConversation(ms, summary, recentCount, minMessages)
  IN IF estimateTokens(first) > target
     THEN [ctx |-> Assemble(ragLen, s.summary,
                            getRecentHistory(s.messages, recentCount \div 2), queryLen),
           first |-> first, over |-> TRUE, messages |-> s.messages, summary |-> s.summary]
     ELSE [ctx |-> first, first |-> first, over |-> FALSE,
           messages |-> ms, summary |-> summary]

\* The value getOptimizedContext returns and the state it leaves, as a record
\* [ctx, first, over, messages, summary].
getOptimizedContext(ms, summary, recentCount, minMessages, target, queryLen, ragLen) ==
  LET first == Assemble(ragLen, summary, getRecentHistory(ms, recentCount), queryLen)
      over  == estimateTokens(first) > target
      s     == summarizeConversation(ms, summary, recentCount, minMessages)
      tight == getRecentHistory(s.messages, Max(TightFloor, recentCount \div 2))
  IN IF over
     THEN [ctx |-> Assemble(ragLen, s.summary, tight, queryLen), first |-> first,
           over |-> TRUE, messages |-> s.messages, summary |-> s.summary]
     ELSE [ctx |-> first, first |-> first, over |-> FALSE,
           messages |-> ms, summary |-> summary]

\* The display text of addToolResult: "Tool: <name>", "OK: <true|false>",
\* "Output:\n<clipped output>", "Error:\n<clipped error>", joined by '\n'; the
\* last two only when the field is a non-empty string.
ToolDisplayLen(nameLen, ok, outLen, errLen) ==
  (6 + nameLen) + 1 + (4 + (IF ok THEN 4 ELSE 5))
  + (IF outLen > 0 THEN 1 + 8 + safeClip(outLen, ToolOutputClip) ELSE 0)
  + (IF errLen > 0 THEN 1 + 7 + safeClip(errLen, ToolErrorClip) ELSE 0)

\* ------------------------------------------------------------ path policy
\* A path is a JavaScript string, modelled as the sequence of its characters.
StartsWith(p, pre) == Len(pre) <= Len(p) /\ SubSeq(p, 1, Len(pre)) = pre

\* rel.replace(/\\/g, '/')
BackslashesToSlashes(p) == [i \in 1..Len(p) |-> IF p[i] = "\\" THEN "/" ELSE p[i]]

\* .replace(/^\.?\//, ''): one leading "./" or "/" is removed, once.
StripLeadingDotSlash(p) ==
  IF StartsWith(p, <<".", "/">>) THEN SubSeq(p, 3, Len(p))
  ELSE IF StartsWith(p, <<"/">>) THEN SubSeq(p, 2, Len(p))
  ELSE p

normalizeRelPath(rel) == StripLeadingDotSlash(BackslashesToSlashes(rel))

Matches(p, entry) == StartsWith(p, entry \o <<"/">>) \/ p = entry

\* Mutant: the allowed set is consulted before the denied set.
isPathAllowedAllowFirst(rel, allowed, denied) ==
  LET p == normalizeRelPath(rel) IN
  IF allowed # {} /\ \E a \in allowed : Matches(p, a) THEN TRUE
  ELSE IF \E d \in denied : Matches(p, d) THEN FALSE
  ELSE allowed = {}

\* Mutant: the allowed entries are matched as plain string prefixes.
isPathAllowedLoosePrefix(rel, allowed, denied) ==
  LET p == normalizeRelPath(rel) IN
  IF \E d \in denied : Matches(p, d) THEN FALSE
  ELSE IF allowed = {} THEN TRUE
  ELSE \E a \in allowed : StartsWith(p, a)

\* isPathAllowed(rel, cfg), the two settings read from cfg being parameters.
isPathAllowed(rel, allowed, denied) ==
  LET p == normalizeRelPath(rel) IN
  IF \E d \in denied : Matches(p, d) THEN FALSE
  ELSE IF allowed = {} THEN TRUE
  ELSE \E a \in allowed : Matches(p, a)

\* ------------------------------------------------------------ tool results
\* A field of a ToolResult that is not set.
Absent == "<undefined>"

Ok(output) == [ok |-> TRUE, output |-> output, error |-> Absent, meta |-> <<>>]
OkMeta(meta) == [ok |-> TRUE, output |-> Absent, error |-> Absent, meta |-> meta]
Fail(error) == [ok |-> FALSE, output |-> Absent, error |-> error, meta |-> <<>>]

\* An Error object: String(e) is its name, followed by ": " and the message when
\* there is one.
NoError == [name |-> "", message |-> "", stack |-> ""]
ErrorToString(e) == IF e.message = "" THEN e.name ELSE e.name \o ": " \o e.message

\* What a handler did: it returned a ToolResult or it threw (its promise was
\* rejected); ops are the host operations it issued, fs the files it left.
Returned(result, ops, fs) ==
  [kind |-> "returned", result |-> result, thrown |-> NoError, ops |-> ops, files |-> fs]
Threw(e, ops, fs) ==
  [kind |-> "threw", result |-> Fail(Absent), thrown |-> e, ops |-> ops, files |-> fs]

\* ----------------------------------------------------------- file system
RECURSIVE Str(_)
Str(p) == IF p = <<>> THEN "" ELSE Head(p) \o Str(Tail(p))

\* A path split at "/" (String.prototype.split('/')): its segments.
RECURSIVE SplitAt(_, _)
SplitAt(p, cur) ==
  IF p = <<>> THEN <<cur>>
  ELSE IF Head(p) = "/" THEN <<cur>> \o SplitAt(Tail(p), <<>>)
  ELSE SplitAt(Tail(p), Append(cur, Head(p)))
Segments(p) == SplitAt(p, <<>>)

Front(s) == SubSeq(s, 1, Len(s) - 1)

\* path.join(ws.uri.fsPath, rel): the location below the workspace root, empty
\* and "." segments dropped, ".." taking the last segment away (a ".." that
\* climbs above the root is kept: the location is outside the workspace).
RECURSIVE JoinSegments(_, _)
JoinSegments(stack, segs) ==
  IF segs = <<>> THEN stack
  ELSE LET g == Head(segs) IN
       IF g = <<>> \/ g = <<".">> THEN JoinSegments(stack, Tail(segs))
       ELSE IF g = <<".", ".">>
            THEN IF stack # <<>> /\ stack[Len(stack)] # <<".", ".">>
                 THEN JoinSegments(Front(stack), Tail(segs))
                 ELSE JoinSegments(Append(stack, g), Tail(segs))
       ELSE JoinSegments(Append(stack, g), Tail(segs))
PathJoin(rel) == JoinSegments(<<>>, Segments(rel))

IsPrefixSeq(s, t) == Len(s) <= Len(t) /\ SubSeq(t, 1, Len(s)) = s

FsOp(op, loc) == [op |-> op, loc |-> loc, cmd |-> ""]
Exec(cmd) == [op |-> "exec", loc |-> <<>>, cmd |-> cmd]

FileAt(fs, loc) == {f \in fs : f.loc = loc}
Under(fs, loc) == {f \in fs : IsPrefixSeq(loc, f.loc)}
\* A location a file can be written at: inside the workspace, not the root,
\* not a directory, and with no file among the directories leading to it.
Writable(fs, loc) ==
  /\ loc # <<>>
  /\ loc[1] # <<".", ".">>
  /\ \A f \in fs : f.loc # loc => ~IsPrefixSeq(loc, f.loc) /\ ~IsPrefixSeq(f.loc, loc)
\* A location that can be deleted: inside the workspace, not the root.
Deletable(loc) == loc # <<>> /\ loc[1] # <<".", ".">>

\* -------------------------------------------------------- FileSystemTool
\* io is what the host file system does in this call ("ok", "failCreate",
\* "failWrite"), e the error it throws when it fails.
read_file(path, ws, fs, io, e) ==
  IF path = <<>> THEN Returned(Fail("path is required"), <<>>, fs)
  ELSE IF ~ws THEN Returned(Fail("No workspace"), <<>>, fs)
  ELSE LET abs == PathJoin(normalizeRelPath(path))
           ops == <<FsOp("readFile", abs)>>
       IN IF io = "ok" /\ FileAt(fs, abs) # {}
          THEN Returned(Ok((CHOOSE f \in FileAt(fs, abs) : TRUE).content), ops, fs)
          ELSE Returned(Fail(ErrorToString(e)), ops, fs)

\* Mutant: the policy is consulted after the directories have been created.
write_fileCheckLate(path, content, createDirs, allowed, denied, ws, fs, io, e) ==
  IF path = <<>> THEN Returned(Fail("path is required"), <<>>, fs)
  ELSE IF content = "" THEN Returned(Fail("content is required"), <<>>, fs)
  ELSE IF ~ws THEN Returned(Fail("No workspace"), <<>>, fs)
  ELSE LET rel   == normalizeRelPath(path)
           parts == Front(Segments(rel))
           mk    == IF createDirs /\ parts # <<>>
                    THEN <<FsOp("createDirectory", JoinSegments(<<>>, parts))>>
                    ELSE <<>>
       IN IF ~isPathAllowed(path, allowed, denied)
          THEN Returned(Fail("Path not allowed by policy"), mk, fs)
          ELSE Returned(Ok("wrote " \o Str(rel)),
                        Append(mk, FsOp("writeFile", PathJoin(rel))),
                        (fs \ FileAt(fs, PathJoin(rel)))
                          \cup {[loc |-> PathJoin(rel), content |-> content]})

write_file(path, content, createDirs, allowed, denied, ws, fs, io, e) ==
  IF path = <<>> THEN Returned(Fail("path is required"), <<>>, fs)
  ELSE IF content = "" THEN Returned(Fail("content is required"), <<>>, fs)
  ELSE IF ~isPathAllowed(path, allowed, denied)
       THEN Returned(Fail("Path not allowed by policy"), <<>>, fs)
  ELSE IF ~ws THEN Returned(Fail("No workspace"), <<>>, fs)
  ELSE LET rel   == normalizeRelPath(path)
           abs   == PathJoin(rel)
           parts == Front(Segments(rel))
           mk    == IF createDirs /\ parts # <<>>
                    THEN <<FsOp("createDirectory", JoinSegments(<<>>, parts))>>
                    ELSE <<>>
       IN IF mk # <<>> /\ io = "failCreate"
          THEN Returned(Fail(ErrorToString(e)), mk, fs)
          ELSE IF io = "failWrite" \/ ~Writable(fs, abs)
          THEN Returned(Fail(ErrorToString(e)), Append(mk, FsOp("writeFile", abs)), fs)
          ELSE Returned(Ok("wrote " \o Str(rel)),
                        Append(mk, FsOp("writeFile", abs)),
                        (fs \ FileAt(fs, abs)) \cup {[loc |-> abs, content |-> content]})

delete_path(path, allowed, denied, ws, fs, io, e) ==
  IF path = <<>> THEN Returned(Fail("path is required"), <<>>, fs)
  ELSE IF ~isPathAllowed(path, allowed, denied)
       THEN Returned(Fail("Path not allowed by policy"), <<>>, fs)
  ELSE IF ~ws THEN Returned(Fail("No workspace"), <<>>, fs)
  ELSE LET abs == PathJoin(normalizeRelPath(path))
           ops == <<FsOp("delete", abs)>>
       IN IF io = "ok" /\ Deletable(abs) /\ Under(fs, abs) # {}
          THEN Returned(Ok("deleted"), ops, fs \ Under(fs, abs))
          ELSE Returned(Fail(ErrorToString(e)), ops, fs)

apply_patch(path, newContent, allowed, denied, ws, fs, io, e) ==
  IF path = <<>> THEN Returned(Fail("path is required"), <<>>, fs)
  ELSE IF newContent = "" THEN Returned(Fail("newContent is required"), <<>>, fs)
  ELSE write_file(path, newContent, TRUE, allowed, denied, ws, fs, io, e)

\* A set as an array, in an order fixed by the host (directory order).
RECURSIVE SetToSeq(_)
SetToSeq(S) ==
  IF S = {} THEN <<>>
  ELSE LET x == CHOOSE y \in S : TRUE IN <<x>> \o SetToSeq(S \ {x})

Take(s, n) == IF n >= Len(s) THEN s ELSE SubSeq(s, 1, n)

DefaultListMax == 500
\* list_files: the walk pushes files until out.length >= (max ?? 500).
list_files(under, max, ws, fs, io, e) ==
  IF ~ws THEN Returned(Fail("No workspace"), <<>>, fs)
  ELSE LET root  == IF under # <<>> THEN PathJoin(normalizeRelPath(under)) ELSE <<>>
           limit == IF max = Undefined THEN DefaultListMax ELSE max
           found == SetToSeq({f.loc : f \in Under(fs, root)})
           ops   == <<FsOp("readDirectory", root)>>
       IN IF io # "ok" \/ (root # <<>> /\ found = <<>>)
          THEN Returned(Fail(ErrorToString(e)), ops, fs)
          ELSE Returned(OkMeta(Take(found, limit)), ops, fs)

\* ------------------------------------------------------------ SearchTool
\* txt.split(/\r?\n/) for the file contents of the model.
Lines(content) ==
  CASE content = "TODO\nx\nTODO" -> <<"TODO", "x", "TODO">>
    [] OTHER -> <<content>>
\* new RegExp(query, 'i') throws a SyntaxError for "(".
ValidRegex(query) == query # "("
\* rx.test(line) for the queries and lines of the model.
RegexTest(query, line) == query = "TODO" /\ line = "TODO"

DefaultMaxResults == 200

RECURSIVE ScanLines(_, _, _, _, _, _)
ScanLines(lines, i, loc, query, limit, matches) ==
  IF i > Len(lines) THEN matches
  ELSE IF RegexTest(query, lines[i])
       THEN LET pushed == Append(matches, [file |-> loc, line |-> i, text |-> lines[i]])
            IN IF limit <= Len(pushed) THEN pushed
               ELSE ScanLines(lines, i + 1, loc, query, limit, pushed)
       ELSE ScanLines(lines, i + 1, loc, query, limit, matches)

\* The loop over the uris: [matches, ops], every readFile being an op.
RECURSIVE SearchFiles(_, _, _, _, _)
SearchFiles(uris, query, limit, matches, ops) ==
  IF uris = <<>> THEN [matches |-> matches, ops |-> ops]
  ELSE LET f    == Head(uris)
           got  == ScanLines(Lines(f.content), 1, f.loc, query, limit, matches)
           ops2 == Append(ops, FsOp("readFile", f.loc))
       IN IF limit <= Len(got) THEN [matches |-> got, ops |-> ops2]
          ELSE SearchFiles(Tail(uris), query, limit, got, ops2)

search_in_workspace(query, maxResults, ws, fs, io, e) ==
  IF query = "" THEN Returned(Fail("query is required"), <<>>, fs)
  ELSE IF ~ValidRegex(query)
       THEN Threw([name |-> "SyntaxError", message |-> "Invalid regular expression",
                   stack |-> "SyntaxError: Invalid regular expression\n    at new RegExp"],
                  <<>>, fs)
  ELSE LET uris  == IF ws THEN SetToSeq(fs) ELSE <<>>
           limit == IF maxResults = Undefined THEN DefaultMaxResults ELSE maxResults
           r     == SearchFiles(uris, query, limit, <<>>, <<>>)
       IN IF io # "ok" /\ uris # <<>>
          THEN Threw(e, <<FsOp("readFile", Head(uris).loc)>>, fs)
          ELSE Returned(OkMeta(r.matches), r.ops, fs)

\* ----------------------------------------------------------- ProcessTool
DefaultCommandTimeoutSec == 300

\* The timeout in seconds: timeoutSec ?? commandTimeoutSec setting ?? 300.
commandTimeoutSec(timeoutSec, cfgTimeoutSec) ==
  Nullish(timeoutSec, Nullish(cfgTimeoutSec, DefaultCommandTimeoutSec))

\* What the timer callback resolves with.
timeoutResult(seconds, stdout) ==
  [ok |-> FALSE, output |-> stdout,
   error |-> "timeout after " \o ToString(seconds) \o "s", meta |-> <<>>]

\* What the close handler resolves with.
closeResult(code, stdout, stderr) ==
  [ok |-> code = "0", output |-> stdout,
   error |-> IF code = "0" THEN Absent
             ELSE IF stderr # "" THEN stderr
             ELSE "exit code " \o code,
   meta |-> <<>>]

\* run_command: env is what the child and the timer do: which of the timer and
\* the close event comes first, the exit code, and the text the child has
\* written by then.
run_command(cmd, timeoutSec, cfgTimeoutSec, ws, fs, env) ==
  IF cmd = "" THEN Returned(Fail("cmd is required"), <<>>, fs)
  ELSE IF ~ws THEN Returned(Fail("No workspace"), <<>>, fs)
  ELSE IF env.first = "timer"
       THEN Returned(timeoutResult(commandTimeoutSec(timeoutSec, cfgTimeoutSec), env.out),
                     <<Exec(cmd)>>, fs)
       ELSE Returned(closeResult(env.code, env.out, env.err), <<Exec(cmd)>>, fs)

kill_command == Ok("Not implemented: managed process table")

\* ------------------------------------------------------- DiagnosticsTool
get_diagnostics(diagnostics) == OkMeta(diagnostics)

\* --------------------------------------------------------------- GitTool
\* Mutant: a failed command reports stderr alone.
shStderrOnly(env) == IF env.failed THEN Fail(env.stderr) ELSE Ok(env.stdout)

\* sh(cwd, cmd): env is what cp.exec hands to the callback.
sh(env) ==
  IF env.failed
  THEN Fail(IF env.stderr # "" THEN env.stderr ELSE ErrorToString(env.e))
  ELSE Ok(env.stdout)

git_status(ws, fs, env) ==
  IF ~ws THEN Returned(Fail("No workspace"), <<>>, fs)
  ELSE Returned(sh(env), <<Exec("git status --porcelain=v1")>>, fs)

\* Mutant: the call resolves to what 'git add -A' resolved to.
git_commitReturnsAdd(message, ws, fs, envAdd, envCommit) ==
  IF message = "" THEN Returned(Fail("message is required"), <<>>, fs)
  ELSE IF ~ws THEN Returned(Fail("No workspace"), <<>>, fs)
  ELSE Returned(sh(envAdd),
                <<Exec("git add -A"), Exec("git commit -m \"" \o message \o "\"")>>, fs)

git_commit(message, ws, fs, envAdd, envCommit) ==
  IF message = "" THEN Returned(Fail("message is required"), <<>>, fs)
  ELSE IF ~ws THEN Returned(Fail("No workspace"), <<>>, fs)
  ELSE Returned(sh(envCommit),
                <<Exec("git add -A"), Exec("git commit -m \"" \o message \o "\"")>>, fs)

git_revert(commit, ws, fs, env) ==
  IF ~ws THEN Returned(Fail("No workspace"), <<>>, fs)
  ELSE Returned(sh(env),
                <<Exec("git revert --no-edit " \o (IF commit # "" THEN commit ELSE "HEAD~1"))>>,
                fs)

\* ---------------------------------------------------------- ToolRegistry
\* e?.stack || e, then String(): the stack when it is a non-empty string.
StackOrString(e) == IF e.stack # "" THEN e.stack ELSE ErrorToString(e)

\* Mutant: call without its try/catch, the handler's rejection reaches the caller.
ToolRegistryCallNoCatch(name, registered, outcome) ==
  IF ~registered
  THEN [settled |-> "resolved", value |-> Fail("Unknown tool: " \o name)]
  ELSE IF outcome.kind = "threw"
  THEN [settled |-> "rejected", value |-> Fail(Absent)]
  ELSE [settled |-> "resolved", value |-> outcome.result]

\* ToolRegistry.call(name, args): outcome is what the looked-up handler did.
ToolRegistryCall(name, registered, outcome) ==
  IF ~registered
  THEN [settled |-> "resolved", value |-> Fail("Unknown tool: " \o name)]
  ELSE IF outcome.kind = "threw"
  THEN [settled |-> "resolved", value |-> Fail(StackOrString(outcome.thrown))]
  ELSE [settled |-> "resolved", value |-> outcome.result]

\* ------------------------------------------------------ inputs of the model
NewMessages == {<<"user", 200>>, <<"assistant", 0>>, <<"tool", 7>>}
ToolResults == {[ok |-> TRUE, out |-> 4100, err |-> 0],
                [ok |-> FALSE, out |-> 0, err |-> 30]}
QueryLens == {0, 90}
RagLens == {0, 300}

\* new ContextManager(rag, opts): the options a caller passes; Undefined is an
\* absent field.  maxTokens is the value of the setting aiCoderPro.maxTokens.
CtorOptions ==
  { [hardMaxTokens |-> Undefined, targetContextTokens |-> Undefined,
     recentHistoryCount |-> Undefined, summarizeMinMessages |-> Undefined,
     maxTokens |-> Undefined],
    [hardMaxTokens |-> 100, targetContextTokens |-> 60,
     recentHistoryCount |-> 4, summarizeMinMessages |-> 4,
     maxTokens |-> 512],
    [hardMaxTokens |-> 1, targetContextTokens |-> Undefined,
     recentHistoryCount |-> 0, summarizeMinMessages |-> Undefined,
     maxTokens |-> 2000] }

Msg(role, len, id) == [role |-> role, len |-> len, id |-> id]

\* Stored histories a ContextManager is hydrated from (initialMessages) or
\* replaced with (setHistory), as sequences of <<role, length>>.
Histories ==
  { <<>>,
    << <<"user", 200>>, <<"assistant", 200>>, <<"user", 200>>, <<"tool", 7>>,
       <<"assistant", 0>>, <<"user", 90>>, <<"assistant", 7>>, <<"system", 7>>,
       <<"user", 7>>, <<"assistant", 7>> >> }
InitialSummaries == {Undefined, 900, 1700}

Numbered(h, from) == [i \in 1..Len(h) |-> Msg(h[i][1], h[i][2], from + i - 1)]

\* ---------------------------------------------------------- constructor

CtorInit(opts, initialMessages, initialSummary) ==
  LET vsMax == Max(MinMaxTokens, Nullish(opts.maxTokens, DefaultMaxTokens)) IN
  /\ hardMaxTokens = Nullish(opts.hardMaxTokens, vsMax)
  /\ targetContextTokens =
       Nullish(opts.targetContextTokens, Min(TargetCeiling, (vsMax * 3) \div 4))
  /\ recentHistoryCount = Nullish(opts.recentHistoryCount, DefaultRecentHistoryCount)
  /\ summarizeMinMessages =
       Nullish(opts.summarizeMinMessages, DefaultSummarizeMinMessages)
  /\ messages = Numbered(initialMessages, 1)
  /\ conversationSummary = Nullish(initialSummary, 0)
  /\ nextId = Len(initialMessages) + 1
  /\ inputs = 0
  /\ lastOp = "constructor"
  /\ afterAppend = <<>>
  /\ ctx = NoResult

\* A caller that widens the recent-history window and hydrates a stored history.
WideOptions ==
  [hardMaxTokens |-> Undefined, targetContextTokens |-> 60,
   recentHistoryCount |-> 12, summarizeMinMessages |-> Undefined,
   maxTokens |-> Undefined]

CMInit ==
  \/ \E opts \in CtorOptions, h \in Histories, s \in InitialSummaries :
       CtorInit(opts, h, s)
  \/ \E h \in Histories \ {<<>>} : CtorInit(WideOptions, h, Undefined)

\* --------------------------------------------------------------- methods
cfgUnchanged == UNCHANGED <<hardMaxTokens, targetContextTokens, recentHistoryCount,
                            summarizeMinMessages>>

Appended(role, len) ==
  /\ afterAppend' = Append(messages, Msg(role, len, nextId))
  /\ \E kept \in {trimHardMax(Append(messages, Msg(role, len, nextId)), hardMaxTokens)} :
       messages' = kept
  /\ nextId' = nextId + 1
  /\ inputs' = inputs + 1
  /\ ctx' = NoResult
  /\ UNCHANGED conversationSummary
  /\ cfgUnchanged

AddMessage ==
  /\ inputs < MaxInputs
  /\ \E m \in NewMessages : Appended(m[1], m[2])
  /\ lastOp' = "addMessage"
  /\ UNCHANGED <<cfgVars, polVars, toolVars, procVars, parseVars, turnVars, wfVars, intentVars, panelVars, agentVars, catalogVars, sumVars, gitVars, execVars, traceVars>>

AddToolResult ==
  /\ inputs < MaxInputs
  /\ \E r \in ToolResults, nameLen \in {9} :
       Appended("tool", ToolDisplayLen(nameLen, r.ok, r.out, r.err))
  /\ lastOp' = "addToolResult"
  /\ UNCHANGED <<cfgVars, polVars, toolVars, procVars, parseVars, turnVars, wfVars, intentVars, panelVars, agentVars, catalogVars, sumVars, gitVars, execVars, traceVars>>

SetHistory ==
  /\ inputs < MaxInputs
  /\ \E h \in Histories :
       /\ messages' = trimHardMax(Numbered(h, nextId), hardMaxTokens)
       /\ nextId' = nextId + Len(h)
  /\ inputs' = inputs + 1
  /\ lastOp' = "setHistory"
  /\ afterAppend' = <<>>
  /\ ctx' = NoResult
  /\ UNCHANGED conversationSummary
  /\ cfgUnchanged
  /\ UNCHANGED <<cfgVars, polVars, toolVars, procVars, parseVars, turnVars, wfVars, intentVars, panelVars, agentVars, catalogVars, sumVars, gitVars, execVars, traceVars>>

\* The call itself, apart from what it leaves alone outside the ContextManager.
OptimizedContext ==
  /\ \E q \in QueryLens, rag \in RagLens :
       \E r \in {getOptimizedContext(messages, conversationSummary, recentHistoryCount,
                                     summarizeMinMessages, targetContextTokens, q, rag)} :
          /\ ctx' = r.ctx
          /\ messages' = r.messages
          /\ conversationSummary' = r.summary
  /\ lastOp' = "getOptimizedContext"
  /\ afterAppend' = <<>>
  /\ UNCHANGED <<nextId, inputs>>
  /\ cfgUnchanged

GetOptimizedContext ==
  /\ OptimizedContext
  /\ UNCHANGED <<cfgVars, polVars, toolVars, procVars, parseVars, turnVars, wfVars, intentVars, panelVars, agentVars, catalogVars, sumVars, gitVars, execVars, traceVars>>

SummarizeConversation ==
  /\ \E s \in {summarizeConversation(messages, conversationSummary, recentHistoryCount,
                                      summarizeMinMessages)} :
        /\ messages' = s.messages
        /\ conversationSummary' = s.summary
  /\ lastOp' = "summarizeConversation"
  /\ afterAppend' = <<>>
  /\ ctx' = NoResult
  /\ UNCHANGED <<nextId, inputs>>
  /\ cfgUnchanged
  /\ UNCHANGED <<cfgVars, polVars, toolVars, procVars, parseVars, turnVars, wfVars, intentVars, panelVars, agentVars, catalogVars, sumVars, gitVars, execVars, traceVars>>

ClearHistory ==
  /\ messages' = <<>>
  /\ conversationSummary' = 0
  /\ lastOp' = "clearHistory"
  /\ afterAppend' = <<>>
  /\ ctx' = NoResult
  /\ UNCHANGED <<nextId, inputs>>
  /\ cfgUnchanged
  /\ UNCHANGED <<cfgVars, polVars, toolVars, procVars, parseVars, turnVars, wfVars, intentVars, panelVars, agentVars, catalogVars, sumVars, gitVars, execVars, traceVars>>

CMNext ==
  \/ AddMessage
  \/ AddToolResult
  \/ SetHistory
  \/ GetOptimizedContext
  \/ SummarizeConversation
  \/ ClearHistory

\* ------------------------------------------------ policy evaluation
\* Every string of at most MaxPathLen characters over PathChars.
MaxPathLen == 4
PathChars == {"a", "s", "/", "\\", "."}
PathsOfLen(n) == [1..n -> PathChars]
AllPaths == UNION {PathsOfLen(n) : n \in 0..MaxPathLen}

\* Values of the two settings: the entries are used as written.
DeniedSettings  == { {}, {<<"s">>}, {<<"a", "/", "s">>}, {<<"s">>, <<"s", "/">>} }
AllowedSettings == { {}, {<<"a">>}, {<<"s">>}, {<<"a">>, <<"a", "/", "s">>} }

PolicyIdle == polPath = <<>> /\ polDone = FALSE /\ polAllowed = FALSE
ConfigIdle == allowedPaths = {} /\ deniedPaths = {}

PolicyInit ==
  /\ polPath \in AllPaths
  /\ allowedPaths \in AllowedSettings
  /\ deniedPaths \in DeniedSettings
  /\ polDone = FALSE
  /\ polAllowed = FALSE

IsPathAllowed ==
  /\ ~polDone
  /\ polDone' = TRUE
  /\ polAllowed' = isPathAllowed(polPath, allowedPaths, deniedPaths)
  /\ UNCHANGED <<polPath, cfgVars, cmVars, toolVars, procVars, parseVars, turnVars, wfVars, intentVars, panelVars, agentVars, catalogVars, sumVars, gitVars, execVars, traceVars>>

\* ------------------------------------------------------ tool calls
RegisteredTools ==
  {"read_file", "write_file", "apply_patch", "delete_path", "list_files",
   "run_command", "kill_command", "search_in_workspace", "get_diagnostics",
   "git_status", "git_commit", "git_revert"}

\* Path arguments of the tool calls of the model.
ToolPaths ==
  {
    <<>>,   \* (empty: the argument is missing)
    <<"s", "/", "k">>,   \* s/k
    <<"a", "/", "k">>,   \* a/k
    <<"k">>,   \* k
    <<"/", "/", "s", "/", "k">>,   \* //s/k
    <<"a", "/", ".", ".", "/", "s", "/", "k">>,   \* a/../s/k
    <<".", "\\", "s", "\\", "k">>,   \* .\s\k
    <<"s">> }   \* s

\* Directories list_files is asked to walk.
ListRoots == {<<>>, <<"s">>, <<"a">>}
NewContent == "TODO\nx\nTODO"
IoError == [name |-> "Error", message |-> "EIO", stack |-> "Error: EIO\n    at fs"]
NotFoundError ==
  [name |-> "EntryNotFound (FileSystemError)", message |-> "", stack |-> ""]
\* What the host file system does during one call, and the error it throws
\* when an operation fails (a missing file fails with e whatever io is).
ReadOutcomes ==
  { [io |-> "ok", e |-> NotFoundError],
    [io |-> "failWrite", e |-> IoError],
    [io |-> "failWrite", e |-> NotFoundError] }
FsOutcomes == ReadOutcomes \cup {[io |-> "failCreate", e |-> IoError]}
\* args.path with args undefined
ArgsTypeError ==
  [name |-> "TypeError", message |-> "Cannot read properties of undefined",
   stack |-> "TypeError: Cannot read properties of undefined\n    at handler"]
ExecEnvs ==
  { [failed |-> FALSE, stdout |-> "out", stderr |-> "", e |-> NoError],
    [failed |-> TRUE, stdout |-> "", stderr |-> "fatal: not a git repository",
     e |-> [name |-> "Error", message |-> "Command failed", stack |-> "Error: Command failed"]],
    [failed |-> TRUE, stdout |-> "", stderr |-> "",
     e |-> [name |-> "Error", message |-> "Command failed", stack |-> "Error: Command failed"]] }
ProcEnvs ==
  { [first |-> "timer", code |-> "null", out |-> "partial", err |-> ""],
    [first |-> "close", code |-> "0", out |-> "done", err |-> ""],
    [first |-> "close", code |-> "1", out |-> "", err |-> "boom"],
    [first |-> "close", code |-> "1", out |-> "", err |-> ""] }

NoCall ==
  [name |-> "", argsGiven |-> FALSE, path |-> <<>>, content |-> "",
   num |-> Undefined, handler |-> "none",
   handlerResult |-> Fail(Absent), settled |-> "none", result |-> Fail(Absent),
   ops |-> <<>>]

ToolsIdle == workspaceOpen = FALSE /\ files = {} /\ call = NoCall

SecretFile == [loc |-> << <<"s">>, <<"k">> >>, content |-> "data"]

ToolsInit ==
  /\ workspaceOpen \in BOOLEAN
  /\ files = {SecretFile}
  /\ allowedPaths \in {{}, {<<"a">>}}
  /\ deniedPaths \in {{}, {<<"s">>}}
  /\ call = NoCall

\* One ToolRegistry.call(name, args) from its start to the settlement of the
\* promise it returns; outcome is what the handler registered under name does.
SettleWith(name, given, path, content, num, outcome) ==
  LET registered == name \in RegisteredTools
      r == ToolRegistryCall(name, registered, outcome)
  IN /\ call' = [name |-> name, argsGiven |-> given, path |-> path,
                 content |-> content, num |-> num,
                 handler |-> IF registered THEN outcome.kind ELSE "unregistered",
                 handlerResult |-> outcome.result,
                 settled |-> r.settled, result |-> r.value,
                 ops |-> IF registered THEN outcome.ops ELSE <<>>]
     /\ files' = IF registered THEN outcome.files ELSE files
     /\ UNCHANGED <<workspaceOpen, cfgVars, cmVars, polVars, procVars, parseVars, turnVars, wfVars, intentVars, panelVars, agentVars, catalogVars, sumVars, gitVars, execVars, traceVars>>

\* A call whose arguments hold no number.
Settle(name, given, path, content, outcome) ==
  SettleWith(name, given, path, content, Undefined, outcome)

\* The handler reads a property of args, and args is undefined.
NoArgs == Threw(ArgsTypeError, <<>>, files)

CallUnknownTool ==
  Settle("format_disk", TRUE, <<>>, "", Returned(Fail(Absent), <<>>, files))

CallReadFile ==
  \/ Settle("read_file", FALSE, <<>>, "", NoArgs)
  \/ \E p \in ToolPaths, h \in ReadOutcomes :
       Settle("read_file", TRUE, p, "", read_file(p, workspaceOpen, files, h.io, h.e))

CallWriteFile ==
  \/ Settle("write_file", FALSE, <<>>, "", NoArgs)
  \/ \E p \in ToolPaths :
       Settle("write_file", TRUE, p, "",
              write_file(p, "", FALSE, allowedPaths, deniedPaths, workspaceOpen, files,
                         "ok", NotFoundError))
  \/ \E p \in ToolPaths, mk \in BOOLEAN, h \in FsOutcomes :
       Settle("write_file", TRUE, p, NewContent,
              write_file(p, NewContent, mk, allowedPaths, deniedPaths, workspaceOpen,
                         files, h.io, h.e))

CallApplyPatch ==
  \/ Settle("apply_patch", FALSE, <<>>, "", NoArgs)
  \/ \E p \in ToolPaths :
       Settle("apply_patch", TRUE, p, "",
              apply_patch(p, "", allowedPaths, deniedPaths, workspaceOpen, files,
                          "ok", NotFoundError))
  \/ \E p \in ToolPaths, h \in FsOutcomes :
       Settle("apply_patch", TRUE, p, NewContent,
              apply_patch(p, NewContent, allowedPaths, deniedPaths, workspaceOpen,
                          files, h.io, h.e))

CallDeletePath ==
  \/ Settle("delete_path", FALSE, <<>>, "", NoArgs)
  \/ \E p \in ToolPaths, h \in ReadOutcomes :
       Settle("delete_path", TRUE, p, "",
              delete_path(p, allowedPaths, deniedPaths, workspaceOpen, files, h.io, h.e))

CallListFiles ==
  \/ Settle("list_files", FALSE, <<>>, "", NoArgs)
  \/ \E p \in ListRoots, max \in {Undefined, 0, 1}, h \in ReadOutcomes :
       Settle("list_files", TRUE, p, "",
              list_files(p, max, workspaceOpen, files, h.io, h.e))

CallSearchInWorkspace ==
  \/ Settle("search_in_workspace", FALSE, <<>>, "", NoArgs)
  \/ \E q \in {"", "TODO", "("}, max \in {Undefined, 0, 1, 3}, h \in ReadOutcomes :
       SettleWith("search_in_workspace", TRUE, <<>>, q, max,
                  search_in_workspace(q, max, workspaceOpen, files, h.io, h.e))

CallRunCommand ==
  \/ Settle("run_command", FALSE, <<>>, "", NoArgs)
  \/ \E cmd \in {"", "sleep 5"}, sec \in {Undefined, 1}, cfgSec \in {Undefined, 7},
        env \in ProcEnvs :
       Settle("run_command", TRUE, <<>>, cmd,
              run_command(cmd, sec, cfgSec, workspaceOpen, files, env))

CallKillCommand ==
  Settle("kill_command", TRUE, <<>>, "", Returned(kill_command, <<>>, files))

CallGetDiagnostics ==
  \E d \in {<<>>, <<[file |-> "a/k", issues |-> 1]>>} :
    Settle("get_diagnostics", TRUE, <<>>, "", Returned(get_diagnostics(d), <<>>, files))

CallGitStatus ==
  \E env \in ExecEnvs :
    Settle("git_status", TRUE, <<>>, "", git_status(workspaceOpen, files, env))

CallGitCommit ==
  \/ Settle("git_commit", FALSE, <<>>, "", NoArgs)
  \/ \E m \in {"", "AI iteration"}, envAdd \in ExecEnvs, envCommit \in ExecEnvs :
       Settle("git_commit", TRUE, <<>>, m,
              git_commit(m, workspaceOpen, files, envAdd, envCommit))

CallGitRevert ==
  \/ Settle("git_revert", FALSE, <<>>, "", NoArgs)
  \/ \E c \in {"", "abc123"}, env \in ExecEnvs :
       Settle("git_revert", TRUE, <<>>, c, git_revert(c, workspaceOpen, files, env))

ToolsNext ==
  \/ CallUnknownTool
  \/ CallReadFile
  \/ CallWriteFile
  \/ CallApplyPatch
  \/ CallDeletePath
  \/ CallListFiles
  \/ CallSearchInWorkspace
  \/ CallRunCommand
  \/ CallKillCommand
  \/ CallGetDiagnostics
  \/ CallGitStatus
  \/ CallGitCommit
  \/ CallGitRevert

\* ------------------------------------------------ model replies (ModelIO)
\* A text is a sequence of tokens: one token per punctuation character, per
\* word, per triple backtick and per tag, so that indexOf and the regular
\* expressions of the source act on tokens as they act on characters.
START == "<AICODER_JSON>"
END == "</AICODER_JSON>"
\* The triple backtick, written <fence> here.
FENCE == "<fence>"
Whitespace == {" ", "\n"}
Punctuation == {"{", "}", "[", "]", "\"", "'", "\\", ":", ",", "/", ".", "!"}
\* \w and "-": a token made of word characters only.
IsWord(tok) == tok \notin Whitespace \cup Punctuation \cup {START, END, FENCE}

At(t, i) == IF i >= 1 /\ i <= Len(t) THEN t[i] ELSE "<eof>"

\* String.prototype.indexOf(tok, from), 1-based; 0 when there is none (-1).
RECURSIVE IndexOf(_, _, _)
IndexOf(t, tok, from) ==
  IF from > Len(t) THEN 0
  ELSE IF t[from] = tok THEN from
  ELSE IndexOf(t, tok, from + 1)

\* String.prototype.trim()
RECURSIVE TrimStart(_)
TrimStart(t) == IF t # <<>> /\ Head(t) \in Whitespace THEN TrimStart(Tail(t)) ELSE t
RECURSIVE TrimEnd(_)
TrimEnd(t) ==
  IF t # <<>> /\ t[Len(t)] \in Whitespace THEN TrimEnd(SubSeq(t, 1, Len(t) - 1)) ELSE t
Trim(t) == TrimEnd(TrimStart(t))

\* The first index >= i whose token fails the test (Len + 1 when none does).
RECURSIVE SkipWords(_, _)
SkipWords(t, i) == IF i <= Len(t) /\ IsWord(t[i]) THEN SkipWords(t, i + 1) ELSE i
RECURSIVE SkipSpace(_, _)
SkipSpace(t, i) == IF i >= 1 /\ i <= Len(t) /\ t[i] \in Whitespace THEN SkipSpace(t, i + 1) ELSE i

\* ------------------------------------------------------- JSON.stringify
\* A GeneratedProject: files is a sequence of [path, content, executable]
\* (executable "absent", "true" or "false"); postInstall and start are
\* [has, text].  null is NullProject.
NoText == [has |-> FALSE, text |-> <<>>]
Text(t) == [has |-> TRUE, text |-> t]
NullProject == [some |-> FALSE, files |-> <<>>, postInstall |-> NoText, start |-> NoText]
Project(fileList, postInstall, start) ==
  [some |-> TRUE, files |-> fileList, postInstall |-> postInstall, start |-> start]

RECURSIVE EscapeJson(_)
EscapeJson(s) ==
  IF s = <<>> THEN <<>>
  ELSE (CASE Head(s) = "\"" -> <<"\\", "\"">>
          [] Head(s) = "\\" -> <<"\\", "\\">>
          [] Head(s) = "\n" -> <<"\\", "n">>
          [] OTHER -> <<Head(s)>>) \o EscapeJson(Tail(s))
Quote(s) == <<"\"">> \o EscapeJson(s) \o <<"\"">>

StringifyFile(f) ==
  <<"{">> \o Quote(<<"path">>) \o <<":">> \o Quote(f.path)
    \o <<",">> \o Quote(<<"content">>) \o <<":">> \o Quote(f.content)
    \o (IF f.executable = "absent" THEN <<>>
        ELSE <<",">> \o Quote(<<"executable">>) \o <<":", f.executable>>)
    \o <<"}">>
RECURSIVE StringifyFiles(_)
StringifyFiles(fs) ==
  IF fs = <<>> THEN <<>>
  ELSE StringifyFile(Head(fs))
         \o (IF Tail(fs) = <<>> THEN <<>> ELSE <<",">> \o StringifyFiles(Tail(fs)))
StringifyOptional(key, opt) ==
  IF opt.has THEN <<",">> \o Quote(<<key>>) \o <<":">> \o Quote(opt.text) ELSE <<>>
\* JSON.stringify(g)
Stringify(g) ==
  <<"{">> \o Quote(<<"files">>) \o <<":", "[">> \o StringifyFiles(g.files) \o <<"]">>
    \o StringifyOptional("postInstall", g.postInstall)
    \o StringifyOptional("start", g.start)
    \o <<"}">>

\* ----------------------------------------------------------- JSON.parse
\* A parse step: [ok, val, next], next the index after what was read.
ParseFail == [ok |-> FALSE, val |-> <<>>, next |-> 0]
Parsed(val, next) == [ok |-> TRUE, val |-> val, next |-> next]

\* The body of a string literal from index j on, up to its closing quote.
RECURSIVE StringBody(_, _, _)
StringBody(t, j, acc) ==
  LET c == At(t, j) IN
  IF c = "<eof>" \/ c = "\n" THEN ParseFail
  ELSE IF c = "\"" THEN Parsed(acc, j + 1)
  ELSE IF c = "\\"
       THEN LET d == At(t, j + 1) IN
            IF d \in {"\"", "\\", "/"} THEN StringBody(t, j + 2, Append(acc, d))
            ELSE IF d = "n" THEN StringBody(t, j + 2, Append(acc, "\n"))
            ELSE ParseFail
  ELSE StringBody(t, j + 1, Append(acc, c))
\* A string literal at index i (white space before it skipped).
ParseString(t, i) ==
  LET j == SkipSpace(t, i) IN
  IF At(t, j) = "\"" THEN StringBody(t, j + 1, <<>>) ELSE ParseFail
\* The token tok at index i (white space skipped): the index after it, else 0.
Expect(t, i, tok) ==
  LET j == SkipSpace(t, i) IN IF i > 0 /\ At(t, j) = tok THEN j + 1 ELSE 0
\* "key": at index i: the index after the colon, else 0.
ExpectKey(t, i, key) ==
  LET k == IF i > 0 THEN ParseString(t, i) ELSE ParseFail IN
  IF k.ok /\ k.val = <<key>> THEN Expect(t, k.next, ":") ELSE 0
\* "key": "string" at index i.
ParseMember(t, i, key) ==
  LET c == ExpectKey(t, i, key) IN IF c > 0 THEN ParseString(t, c) ELSE ParseFail

\* An optional ,"executable":true|false member at index i: [ok, val, next],
\* val "absent" when the member is not there.
ParseFlagValue(t, i, x, v) ==
  IF x > 0 /\ At(t, v) \in {"true", "false"} THEN Parsed(At(t, v), v + 1)
  ELSE Parsed("absent", i)
ParseFlagAt(t, i, x) == ParseFlagValue(t, i, x, SkipSpace(t, x))
ParseFlag(t, i) == ParseFlagAt(t, i, ExpectKey(t, Expect(t, i, ","), "executable"))

\* One element of files: {"path":..,"content":..[,"executable":true|false]},
\* read member by member: p the path, c the content, x the flag, e the index
\* after the closing brace.
FileClose(p, c, x, e) ==
  IF e > 0
  THEN Parsed([path |-> p.val, content |-> c.val, executable |-> x.val], e)
  ELSE ParseFail
FileFlag(t, p, c, x) == FileClose(p, c, x, Expect(t, x.next, "}"))
FileContent(t, p, c) ==
  IF c.ok THEN FileFlag(t, p, c, ParseFlag(t, c.next)) ELSE ParseFail
FilePath(t, p) ==
  IF p.ok THEN FileContent(t, p, ParseMember(t, Expect(t, p.next, ","), "content"))
  ELSE ParseFail
ParseFile(t, i) == FilePath(t, ParseMember(t, Expect(t, i, "{"), "path"))

\* The elements of files after "[", up to and including "]".
RECURSIVE ParseFiles(_, _, _)
FileSeparator(t, acc, comma, close) ==
  IF comma > 0 THEN ParseFiles(t, comma, acc)
  ELSE IF close > 0 THEN Parsed(acc, close)
  ELSE ParseFail
AfterFile(t, acc, f) ==
  IF f.ok
  THEN FileSeparator(t, Append(acc, f.val), Expect(t, f.next, ","), Expect(t, f.next, "]"))
  ELSE ParseFail
ParseFiles(t, i, acc) ==
  IF acc = <<>> /\ Expect(t, i, "]") > 0 THEN Parsed(acc, Expect(t, i, "]"))
  ELSE AfterFile(t, acc, ParseFile(t, i))

\* An optional ,"key":"string" member at index i: [ok, val (a [has, text]), next].
OptionalMember(i, m) == IF m.ok THEN Parsed(Text(m.val), m.next) ELSE Parsed(NoText, i)
ParseOptional(t, i, key) == OptionalMember(i, ParseMember(t, Expect(t, i, ","), key))

\* JSON.parse for the texts of the model: an object with a files array in the
\* member order JSON.stringify gives; anything else does not yield a project.
\* fs is the files array, pi and st the optional members, e the index after
\* the closing brace.
ProjectClose(t, fs, pi, st, e) ==
  IF e > 0 /\ SkipSpace(t, e) = Len(t) + 1 THEN Project(fs.val, pi.val, st.val)
  ELSE NullProject
ProjectEnd(t, fs, pi, st) == ProjectClose(t, fs, pi, st, Expect(t, st.next, "}"))
ProjectStart(t, fs, pi) == ProjectEnd(t, fs, pi, ParseOptional(t, pi.next, "start"))
ProjectPostInstall(t, fs) ==
  IF fs.ok THEN ProjectStart(t, fs, ParseOptional(t, fs.next, "postInstall"))
  ELSE NullProject
ProjectFiles(t, a) ==
  IF a > 0 THEN ProjectPostInstall(t, ParseFiles(t, a, <<>>)) ELSE NullProject
JsonParseProject(t) ==
  ProjectFiles(t, Expect(t, ExpectKey(t, Expect(t, 1, "{"), "files"), "["))

\* --------------------------------------------------------- the extractors
safeParse(jsonStr) == JsonParseProject(jsonStr)
parseAnyProject(jsonLike) == JsonParseProject(jsonLike)

NoMatch == [found |-> FALSE, a |-> 0, b |-> 0, inner |-> <<>>]

\* /```json\s*([\s\S]*?)```/i from index from on: the leftmost fence that is
\* followed by json and, later, by a closing fence.
RECURSIVE JsonFenceMatch(_, _)
JsonFenceMatch(t, from) ==
  LET a == IndexOf(t, FENCE, from) IN
  IF a = 0 THEN NoMatch
  ELSE IF At(t, a + 1) = "json"
       THEN LET s == SkipSpace(t, a + 2)
                b == IndexOf(t, FENCE, s)
            IN IF b = 0 THEN NoMatch
               ELSE [found |-> TRUE, a |-> a, b |-> b, inner |-> SubSeq(t, s, b - 1)]
       ELSE JsonFenceMatch(t, a + 1)

\* /```(?:json|[\w-]+)?\s*([\s\S]*?)```/ from index from on.
FenceMatch(t, from) ==
  LET a == IndexOf(t, FENCE, from) IN
  IF a = 0 THEN NoMatch
  ELSE LET lang == IF At(t, a + 1) = "json" THEN a + 2 ELSE SkipWords(t, a + 1)
           s    == SkipSpace(t, lang)
           b    == IndexOf(t, FENCE, s)
       IN IF b = 0 THEN NoMatch
          ELSE [found |-> TRUE, a |-> a, b |-> b, inner |-> SubSeq(t, s, b - 1)]

\* text.replace(/```(?:json|[\w-]+)?\s*([\s\S]*?)```/g, '$1')
RECURSIVE ReplaceFences(_, _)
ReplaceFences(t, from) ==
  LET m == FenceMatch(t, from) IN
  IF ~m.found THEN SubSeq(t, from, Len(t))
  ELSE SubSeq(t, from, m.a - 1) \o m.inner \o ReplaceFences(t, m.b + 1)

stripMarkdownFences(text) ==
  IF text = <<>> THEN text
  ELSE LET fenceMatch == FenceMatch(text, 1) IN
       IF fenceMatch.found /\ fenceMatch.inner # <<>> THEN Trim(fenceMatch.inner)
       ELSE Trim(ReplaceFences(text, 1))

extractProjectFromResponse(text) ==
  IF text = <<>> THEN NullProject
  ELSE LET tagStart == IndexOf(text, START, 1)
           tagEnd   == IndexOf(text, END, 1)
           m        == JsonFenceMatch(text, 1)
       IN IF tagStart # 0 /\ tagEnd # 0 /\ tagEnd > tagStart
          THEN safeParse(Trim(SubSeq(text, tagStart + 1, tagEnd - 1)))
          ELSE IF m.found /\ m.inner # <<>> THEN safeParse(Trim(m.inner))
          ELSE NullProject

\* The for loop of the loose scan from index i on: the index of the "}" that
\* brings depth back to 0, or 0 when the text ends first.
RECURSIVE ScanObject(_, _, _, _, _)
ScanObject(clean, i, depth, inString, escaped) ==
  IF i > Len(clean) THEN 0
  ELSE LET ch == clean[i]
           inside == inString # "none"
           nextEscaped == IF inside THEN ~escaped /\ ch = "\\" ELSE escaped
           nextString ==
             IF inside THEN (IF ~escaped /\ ch = inString THEN "none" ELSE inString)
             ELSE IF ch = "\"" \/ ch = "'" THEN ch
             ELSE inString
           nextDepth ==
             IF inside THEN depth
             ELSE IF ch = "{" THEN depth + 1
             ELSE IF ch = "}" THEN depth - 1
             ELSE depth
       IN IF ~inside /\ ch = "}" /\ nextDepth = 0 THEN i
          ELSE ScanObject(clean, i + 1, nextDepth, nextString, nextEscaped)

\* The loose scan over the fence-stripped text: start the first "{", close
\* the brace that ends the candidate, found the candidate's parse.
LooseResult(clean, found) == IF found.some THEN found ELSE safeParse(clean)
LooseParse(clean, start, close) ==
  LooseResult(clean, IF close # 0 THEN safeParse(Trim(SubSeq(clean, start, close)))
                     ELSE NullProject)
LooseCandidate(clean, start) ==
  LooseParse(clean, start,
             IF start # 0 THEN ScanObject(clean, start, 0, "none", FALSE) ELSE 0)
LooseScan(clean) == LooseCandidate(clean, IndexOf(clean, "{", 1))
extractProjectFromResponseLoose(text) ==
  IF text = <<>> THEN NullProject ELSE LooseScan(Trim(stripMarkdownFences(text)))

\* The first of the four attempts that yields a project.
FirstProject(strict, raw, loose, whole) ==
  IF strict.some THEN strict
  ELSE IF raw.some THEN raw
  ELSE IF loose.some THEN loose
  ELSE whole
parseProjectFromAnyText(text) ==
  IF text = <<>> THEN NullProject
  ELSE FirstProject(extractProjectFromResponse(text),
                    parseAnyProject(Trim(stripMarkdownFences(text))),
                    extractProjectFromResponseLoose(text),
                    parseAnyProject(Trim(text)))

\* ------------------------------------------------ parsing one model reply
MaxContentLen == 3
\* Tokens of file contents: a word, braces, both quotes, a backslash, a triple
\* backtick and the two tags.
ContentTokens == {"x", "{", "}", "\"", "'", "\\", FENCE, START, END}
RECURSIVE TextsOfLen(_, _)
TextsOfLen(alphabet, n) ==
  IF n = 0 THEN {<<>>}
  ELSE {Append(t, c) : t \in TextsOfLen(alphabet, n - 1), c \in alphabet}
TextsUpTo(alphabet, n) == UNION {TextsOfLen(alphabet, k) : k \in 0..n}

\* Projects a model is asked to send: one file of any content, one file with
\* each executable flag and optional command, or no file.
SentProjects ==
  {Project(<<[path |-> <<"a">>, content |-> c, executable |-> "absent"]>>,
           NoText, NoText) : c \in TextsUpTo(ContentTokens, MaxContentLen)}
  \cup {Project(<<[path |-> <<"a">>, content |-> <<"x">>, executable |-> x]>>, p, s) :
          x \in {"absent", "true"}, p \in {NoText, Text(<<"x">>)},
          s \in {NoText, Text(<<"x">>)}}
  \cup {Project(<<>>, NoText, NoText)}
\* Projects with neither a fence nor a tag in them.
PlainProjects ==
  {g \in SentProjects :
     \A i \in DOMAIN g.files :
       \A j \in DOMAIN g.files[i].content :
         g.files[i].content[j] \notin {FENCE, START, END}}
\* Prose around an embedded object.
ProseBefore == {<<>>, <<"Here", " ">>, <<"it", "'", "s", ":", "\n">>, <<"{", "x", "}", " ">>}
ProseAfter == {<<>>, <<" ", "!">>}

\* '<AICODER_JSON>' + JSON.stringify(g) + '</AICODER_JSON>'
TaggedReply(g) == <<START>> \o Stringify(g) \o <<END>>
FencedReply(g) == <<FENCE, "json", "\n">> \o Stringify(g) \o <<"\n", FENCE>>

ParseIdle ==
  /\ reply = <<>> /\ replyKind = "none" /\ sent = NullProject
  /\ parsed = NullProject /\ parsePc = "idle"

ParseInit ==
  /\ parsePc = "ready"
  /\ parsed = NullProject
  /\ \/ /\ replyKind = "tagged"
        /\ sent \in SentProjects
        /\ reply = TaggedReply(sent)
     \/ /\ replyKind = "fenced"
        /\ sent \in PlainProjects
        /\ reply = FencedReply(sent)
     \/ /\ replyKind = "prose"
        /\ sent \in PlainProjects
        /\ \E before \in ProseBefore, after \in ProseAfter :
             reply = before \o Stringify(sent) \o after

\* parseProjectFromAnyText(reply)
ParseProjectFromAnyText ==
  /\ parsePc = "ready"
  /\ parsed' = parseProjectFromAnyText(reply)
  /\ parsePc' = "done"
  /\ UNCHANGED <<reply, replyKind, sent>>
  /\ UNCHANGED <<cmVars, cfgVars, polVars, toolVars, procVars, turnVars, wfVars, intentVars, panelVars, agentVars, catalogVars, sumVars, gitVars, execVars, traceVars>>

\* ------------------------------------------- run_command, event by event
MaxChunks == 2
Pending == [state |-> "pending", value |-> Fail(Absent)]

ProcIdle ==
  /\ runPc = "idle"
  /\ runArgs = [cmd |-> "", timeoutSec |-> Undefined, cfgTimeoutSec |-> Undefined]
  /\ child = "none" /\ childCode = "" /\ killSent = FALSE /\ timer = "none"
  /\ out = "" /\ err = "" /\ resolveCalls = 0 /\ promise = Pending
  /\ outAtTimeout = ""

\* Mutant: a later resolve replaces the value of a settled promise.
resolveLastWins(value) ==
  /\ resolveCalls' = resolveCalls + 1
  /\ promise' = [state |-> "fulfilled", value |-> value]

\* resolve(value): the call is counted; it settles the promise only when the
\* promise is still pending.
resolve(value) ==
  /\ resolveCalls' = resolveCalls + 1
  /\ promise' = IF promise.state = "pending"
                THEN [state |-> "fulfilled", value |-> value]
                ELSE promise

\* run_command(args) up to the return of its promise: the argument checks, then
\* spawn, the timer and the listeners.  The spawn may fail (the child then
\* emits 'error', for which there is no listener).
RunCommandStart ==
  /\ runPc = "idle"
  /\ \E cmd \in {"", "sleep 5"}, sec \in {Undefined, 0, 1}, cfgSec \in {Undefined, 7} :
       /\ runArgs' = [cmd |-> cmd, timeoutSec |-> sec, cfgTimeoutSec |-> cfgSec]
       /\ IF cmd = "" \/ ~workspaceOpen
          THEN /\ runPc' = "returned"
               /\ promise' = [state |-> "fulfilled",
                              value |-> IF cmd = "" THEN Fail("cmd is required")
                                        ELSE Fail("No workspace")]
               /\ UNCHANGED <<child, timer>>
          ELSE /\ runPc' = "pending"
               /\ child' \in {"alive", "failed"}
               /\ timer' = "armed"
               /\ UNCHANGED promise
  /\ UNCHANGED <<childCode, killSent, out, err, resolveCalls, outAtTimeout>>
  /\ UNCHANGED <<cmVars, cfgVars, polVars, toolVars, parseVars, turnVars, wfVars, intentVars, panelVars, agentVars, catalogVars, sumVars, gitVars, execVars, traceVars>>

\* child.stdout 'data': out += d.toString()
StdoutData ==
  /\ child \in {"alive", "exited"}
  /\ Len(out) < MaxChunks
  /\ out' = out \o "o"
  /\ UNCHANGED <<runPc, runArgs, child, childCode, killSent, timer, err,
                 resolveCalls, promise, outAtTimeout>>
  /\ UNCHANGED <<cmVars, cfgVars, polVars, toolVars, parseVars, turnVars, wfVars, intentVars, panelVars, agentVars, catalogVars, sumVars, gitVars, execVars, traceVars>>

\* child.stderr 'data': err += d.toString()
StderrData ==
  /\ child \in {"alive", "exited"}
  /\ Len(err) < MaxChunks
  /\ err' = err \o "e"
  /\ UNCHANGED <<runPc, runArgs, child, childCode, killSent, timer, out,
                 resolveCalls, promise, outAtTimeout>>
  /\ UNCHANGED <<cmVars, cfgVars, polVars, toolVars, parseVars, turnVars, wfVars, intentVars, panelVars, agentVars, catalogVars, sumVars, gitVars, execVars, traceVars>>

\* The child process ends: on its own with an exit code, or by the SIGKILL
\* sent to it (exit code null).
ChildExit ==
  /\ child = "alive"
  /\ child' = "exited"
  /\ childCode' \in (IF killSent THEN {"null"} ELSE {"0", "1"})
  /\ UNCHANGED <<runPc, runArgs, killSent, timer, out, err, resolveCalls,
                 promise, outAtTimeout>>
  /\ UNCHANGED <<cmVars, cfgVars, polVars, toolVars, parseVars, turnVars, wfVars, intentVars, panelVars, agentVars, catalogVars, sumVars, gitVars, execVars, traceVars>>

\* Mutant: the callback kills the child and leaves the promise alone.
TimerFiresKillOnly ==
  /\ timer = "armed"
  /\ timer' = "fired"
  /\ killSent' = TRUE
  /\ outAtTimeout' = out
  /\ UNCHANGED <<runPc, runArgs, child, childCode, out, err, resolveCalls, promise>>
  /\ UNCHANGED <<cmVars, cfgVars, polVars, toolVars, parseVars, turnVars, wfVars, intentVars, panelVars, agentVars, catalogVars, sumVars, gitVars, execVars, traceVars>>

\* The setTimeout callback: child.kill('SIGKILL'); resolve(timeout result).
TimerFires ==
  /\ timer = "armed"
  /\ timer' = "fired"
  /\ killSent' = TRUE
  /\ outAtTimeout' = out
  /\ resolve(timeoutResult(
       commandTimeoutSec(runArgs.timeoutSec, runArgs.cfgTimeoutSec), out))
  /\ UNCHANGED <<runPc, runArgs, child, childCode, out, err>>
  /\ UNCHANGED <<cmVars, cfgVars, polVars, toolVars, parseVars, turnVars, wfVars, intentVars, panelVars, agentVars, catalogVars, sumVars, gitVars, execVars, traceVars>>

\* The 'close' listener: clearTimeout(timer); resolve(exit result).  After a
\* failed spawn the event, if the host emits it at all, carries a negative code.
ChildClose ==
  /\ child \in {"exited", "failed"}
  /\ child' = "closed"
  /\ childCode' = IF child = "failed" THEN "-2" ELSE childCode
  /\ timer' = IF timer = "armed" THEN "cleared" ELSE timer
  /\ resolve(closeResult(childCode', out, err))
  /\ UNCHANGED <<runPc, runArgs, killSent, out, err, outAtTimeout>>
  /\ UNCHANGED <<cmVars, cfgVars, polVars, toolVars, parseVars, turnVars, wfVars, intentVars, panelVars, agentVars, catalogVars, sumVars, gitVars, execVars, traceVars>>

RunInit ==
  /\ ProcIdle
  /\ workspaceOpen \in BOOLEAN
  /\ files = {}
  /\ call = NoCall

RunNext ==
  \/ RunCommandStart
  \/ StdoutData
  \/ StderrData
  \/ ChildExit
  \/ TimerFires
  \/ ChildClose

\* ------------------------------------------- chat turn: parse and write
\* project?.files?.length, and the test before the write
hasFiles(p) == p.some /\ Len(p.files) > 0

\* f.path.replace(/^[/\\]+/, '')
RECURSIVE stripLeadingSlashes(_)
stripLeadingSlashes(p) ==
  IF p # <<>> /\ Head(p) \in {"/", "\\"} THEN stripLeadingSlashes(Tail(p)) ELSE p

\* project.files.map(f => ({...f, path: f.path.replace(/^[/\\]+/, '')}))
normalizeFiles(fileList) ==
  [i \in DOMAIN fileList |->
     [fileList[i] EXCEPT !.path = stripLeadingSlashes(fileList[i].path)]]

\* rel.split(/[\\/]/): the segments between slashes and backslashes
RECURSIVE SplitSlashes(_, _, _)
SplitSlashes(p, cur, acc) ==
  IF p = <<>> THEN Append(acc, cur)
  ELSE IF Head(p) \in {"/", "\\"} THEN SplitSlashes(Tail(p), <<>>, Append(acc, cur))
  ELSE SplitSlashes(Tail(p), Append(cur, Head(p)), acc)

\* vscode.Uri.joinPath(root, ...rel.split(/[\\/]/)): empty segments add nothing
targetOf(path) ==
  SelectSeq(SplitSlashes(stripLeadingSlashes(path), <<>>, <<>>), LAMBDA s : s # <<>>)

NoPayload == [files |-> <<>>, postInstall |-> NoText, start |-> NoText]

\* The texts posted to the panel.
WritingNotice == <<"Writing files to workspace">>
WrittenNotice == <<"Files written">>
FailedNotice == <<"Failed writing files">>
UnparsedNotice == <<"Could not parse a file payload from the model response", "\n", "\n">>
ErrorNotice == <<"Error">>
Message(text) == [type |-> "ai", text |-> text]

\* Paths a model may put in a payload.
TurnPaths ==
  {<<"a">>, <<"/">>, <<"/", "/", "a">>, <<"\\", "a", "\\", "b">>,
   <<"a", "\\", "b">>, <<"/", "a", "/", "b">>, <<"a", "/", "b">>, <<"\\">>}
OneFile(p) == [path |-> p, content |-> <<"x">>, executable |-> "absent"]
TurnProjects ==
  {Project(<<OneFile(p)>>, NoText, NoText) : p \in TurnPaths}
  \cup {Project(<<OneFile(<<"a">>), OneFile(<<"/", "b">>)>>, Text(<<"x">>), NoText),
        Project(<<OneFile(<<"a">>)>>, Text(<<" ", "i", " ">>), Text(<<"s">>)),
        Project(<<OneFile(<<"a">>)>>, Text(<<" ">>), NoText),
        Project(<<>>, Text(<<"i">>), Text(<<"s">>)),
        Project(<<>>, NoText, NoText)}
\* Replies of the model: a tagged payload, prose alone, prose with braces
\* before a payload.
TurnReplies ==
  {TaggedReply(g) : g \in TurnProjects}
  \cup {<<"Sorry">>,
        <<"{", "x", "}", " ">> \o Stringify(Project(<<OneFile(<<"a">>)>>, NoText, NoText))}

TurnIdle ==
  /\ turnPc = "idle" /\ response = <<>> /\ repaired = <<>>
  /\ project = NullProject /\ repairCalls = 0 /\ writerCalls = 0
  /\ payload = NoPayload /\ written = <<>> /\ terminal = <<>> /\ shown = <<>>

\* The model's reply to the prompt has arrived.
TurnInit ==
  /\ turnPc = "replied" /\ response \in TurnReplies /\ repaired = <<>>
  /\ project = NullProject /\ repairCalls = 0 /\ writerCalls = 0
  /\ payload = NoPayload /\ written = <<>> /\ terminal = <<>> /\ shown = <<>>

\* What follows tryParseOrFix: normalise and hand to writeFilesPayload, or
\* show the raw response.
parseAndWrite(p) ==
  IF hasFiles(p)
  THEN /\ shown' = Append(shown, Message(WritingNotice))
       /\ payload' = [files |-> normalizeFiles(p.files),
                      postInstall |-> p.postInstall, start |-> p.start]
       /\ writerCalls' = writerCalls + 1
       /\ turnPc' = "writing"
  ELSE /\ shown' = Append(shown, Message(UnparsedNotice \o response))
       /\ turnPc' = "done"
       /\ UNCHANGED <<payload, writerCalls>>

\* tryParseOrFix up to its await: parse, or issue the repair completion
TryParseOrFix ==
  /\ turnPc = "replied"
  /\ LET first == parseProjectFromAnyText(response) IN
       IF hasFiles(first)
       THEN /\ project' = first
            /\ parseAndWrite(first)
            /\ UNCHANGED repairCalls
       ELSE /\ repairCalls' = repairCalls + 1
            /\ turnPc' = "repairing"
            /\ UNCHANGED <<project, payload, writerCalls, shown>>
  /\ UNCHANGED <<response, repaired, written, terminal>>
  /\ UNCHANGED <<cmVars, cfgVars, polVars, toolVars, procVars, parseVars, wfVars, intentVars, panelVars, agentVars, catalogVars, sumVars, gitVars, execVars, traceVars>>

\* A variant that asks for a repair again when the repaired reply fails.
RepairRepliesRetry ==
  /\ turnPc = "repairing"
  /\ \E r \in TurnReplies :
       /\ repaired' = r
       /\ LET second == parseProjectFromAnyText(r) IN
            /\ project' = second
            /\ IF hasFiles(second) \/ repairCalls >= 2
               THEN parseAndWrite(second) /\ UNCHANGED repairCalls
               ELSE /\ repairCalls' = repairCalls + 1
                    /\ UNCHANGED <<turnPc, payload, writerCalls, shown>>
  /\ UNCHANGED <<response, written, terminal>>
  /\ UNCHANGED <<cmVars, cfgVars, polVars, toolVars, procVars, parseVars, wfVars, intentVars, panelVars, agentVars, catalogVars, sumVars, gitVars, execVars, traceVars>>

\* The repair completion resolves: parse it, return project ?? null
RepairReplies ==
  /\ turnPc = "repairing"
  /\ \E r \in TurnReplies :
       /\ repaired' = r
       /\ LET second == parseProjectFromAnyText(r) IN
            /\ project' = second
            /\ parseAndWrite(second)
  /\ UNCHANGED <<response, repairCalls, written, terminal>>
  /\ UNCHANGED <<cmVars, cfgVars, polVars, toolVars, procVars, parseVars, wfVars, intentVars, panelVars, agentVars, catalogVars, sumVars, gitVars, execVars, traceVars>>

\* The repair completion rejects: the handler's catch shows the error.
RepairRejects ==
  /\ turnPc = "repairing"
  /\ shown' = Append(shown, Message(ErrorNotice))
  /\ turnPc' = "done"
  /\ UNCHANGED <<response, repaired, project, repairCalls, writerCalls, payload,
                 written, terminal>>
  /\ UNCHANGED <<cmVars, cfgVars, polVars, toolVars, procVars, parseVars, wfVars, intentVars, panelVars, agentVars, catalogVars, sumVars, gitVars, execVars, traceVars>>

\* term.sendText(`cd "${ws}"`)
CdLine == <<"cd", " ", "\"", "ws", "\"">>

\* project.postInstall?.trim() / project.start?.trim(), sent when non-empty
commandsOf(p) ==
  (IF p.postInstall.has /\ Trim(p.postInstall.text) # <<>>
   THEN <<Trim(p.postInstall.text)>> ELSE <<>>)
  \o (IF p.start.has /\ Trim(p.start.text) # <<>> THEN <<Trim(p.start.text)>> ELSE <<>>)

\* Mutant: the start command is sent before the post-install command.
runPostInstallAndStartSwapped(p, ws) ==
  IF ~(p.postInstall.has /\ p.postInstall.text # <<>>)
     /\ ~(p.start.has /\ p.start.text # <<>>)
  THEN <<>>
  ELSE (IF ws THEN <<CdLine>> ELSE <<>>)
       \o (IF p.start.has /\ Trim(p.start.text) # <<>> THEN <<Trim(p.start.text)>> ELSE <<>>)
       \o (IF p.postInstall.has /\ Trim(p.postInstall.text) # <<>>
           THEN <<Trim(p.postInstall.text)>> ELSE <<>>)

\* runPostInstallAndStart(project): what is sent to the terminal, in order;
\* nothing (and no terminal) when both commands are absent or empty.
runPostInstallAndStart(p, ws) ==
  IF ~(p.postInstall.has /\ p.postInstall.text # <<>>)
     /\ ~(p.start.has /\ p.start.text # <<>>)
  THEN <<>>
  ELSE (IF ws THEN <<CdLine>> ELSE <<>>) \o commandsOf(p)

\* writeFilesPayload writes every file in order and resolves
WriteFilesPayload ==
  /\ turnPc = "writing"
  /\ written' = [i \in DOMAIN payload.files |-> targetOf(payload.files[i].path)]
  /\ turnPc' = "written"
  /\ UNCHANGED <<response, repaired, project, repairCalls, writerCalls, payload,
                 terminal, shown>>
  /\ UNCHANGED <<cmVars, cfgVars, polVars, toolVars, procVars, parseVars, wfVars, intentVars, panelVars, agentVars, catalogVars, sumVars, gitVars, execVars, traceVars>>

\* await writeFilesPayload(payload) has resolved: 'Files written' is posted and
\* runPostInstallAndStart(payload) sends the commands.
RunPostInstallAndStart ==
  /\ turnPc = "written"
  /\ shown' = Append(shown, Message(WrittenNotice))
  /\ terminal' = runPostInstallAndStart(payload, workspaceOpen)
  /\ turnPc' = "done"
  /\ UNCHANGED <<response, repaired, project, repairCalls, writerCalls, payload, written>>
  /\ UNCHANGED <<cmVars, cfgVars, polVars, toolVars, procVars, parseVars, wfVars, intentVars, panelVars, agentVars, catalogVars, sumVars, gitVars, execVars, traceVars>>

\* writeFilesPayload throws at the root or at file k + 1: k files are written
WriteFilesPayloadThrows ==
  /\ turnPc = "writing"
  /\ \E k \in 0..(Len(payload.files) - 1) :
       written' = [i \in 1..k |-> targetOf(payload.files[i].path)]
  /\ shown' = Append(shown, Message(FailedNotice))
  /\ turnPc' = "done"
  /\ UNCHANGED <<response, repaired, project, repairCalls, writerCalls, payload,
                 terminal>>
  /\ UNCHANGED <<cmVars, cfgVars, polVars, toolVars, procVars, parseVars, wfVars, intentVars, panelVars, agentVars, catalogVars, sumVars, gitVars, execVars, traceVars>>

TurnNext ==
  \/ TryParseOrFix
  \/ RepairReplies
  \/ RepairRejects
  \/ WriteFilesPayload
  \/ RunPostInstallAndStart
  \/ WriteFilesPayloadThrows

\* ------------------------------------------------ AgenticWorkflow.runGoal
MaxGoals == 2
ConfigError ==
  "Tooling not configured. Provide ToolRegistry and ToolUseOrchestrator in AgenticWorkflow constructor."
\* What a rejecting runLoop throws: the orchestrator's own error.
LoopError == "runLoop rejected"
NoOutcome == [state |-> "none", error |-> Absent]
Rejected(e) == [state |-> "rejected", error |-> e]
Fulfilled == [state |-> "fulfilled", error |-> Absent]

\* A variant that is content with one of the two collaborators.
isConfiguredEither(tools, orchestrator) == tools \/ orchestrator
\* the negation of  !this.tools || !this.orchestrator
isConfigured(tools, orchestrator) == tools /\ orchestrator

\* Message contents by length: a string of len characters, or a structured
\* value whose JSON.stringify has json characters (a string's has two more
\* than the string).
StringContent(n) == [isString |-> TRUE, len |-> n, json |-> n + 2]
StructuredContent(n) == [isString |-> FALSE, len |-> 0, json |-> n]
\* typeof m.content === 'string' ? m.content : JSON.stringify(m.content)
contentText(c) == IF c.isString THEN c.len ELSE c.json

\* Transcripts a runLoop returns: messages of role user, assistant or tool.
TMsg(role, content) == [role |-> role, content |-> content]
LongTranscript ==
  [i \in 1..9 |-> TMsg(IF i % 2 = 1 THEN "assistant" ELSE "tool", StringContent(200))]
Transcripts ==
  { <<>>,
    <<TMsg("user", StringContent(50)), TMsg("assistant", StringContent(20)),
      TMsg("tool", StructuredContent(30)), TMsg("assistant", StructuredContent(12))>>,
    <<TMsg("tool", StringContent(7)), TMsg("tool", StructuredContent(4100))>>,
    LongTranscript }

RECURSIVE ToolMessages(_)
ToolMessages(t) ==
  IF t = <<>> THEN 0
  ELSE (IF Head(t).role = "tool" THEN 1 ELSE 0) + ToolMessages(Tail(t))

\* A variant of the replay that leaves tool messages out.
RECURSIVE replaySkipTool(_, _, _, _, _)
replaySkipTool(ms, calls, id, t, hardMax) ==
  IF t = <<>> THEN [messages |-> ms, calls |-> calls, nextId |-> id]
  ELSE LET m == Head(t) IN
       IF m.role \in {"assistant", "user"}
       THEN replaySkipTool(trimHardMax(Append(ms, Msg(m.role, contentText(m.content), id)),
                                       hardMax),
                           Append(calls, <<m.role, contentText(m.content)>>),
                           id + 1, Tail(t), hardMax)
       ELSE replaySkipTool(ms, calls, id, Tail(t), hardMax)

\* for (const m of res.messages) ... this.contextManager.addMessage(role, text):
\* the history, the addMessage calls made, and the next message id.
RECURSIVE replay(_, _, _, _, _)
replay(ms, calls, id, t, hardMax) ==
  IF t = <<>> THEN [messages |-> ms, calls |-> calls, nextId |-> id]
  ELSE LET m == Head(t) IN
       IF m.role \in {"tool", "assistant", "user"}
       THEN replay(trimHardMax(Append(ms, Msg(m.role, contentText(m.content), id)),
                               hardMax),
                   Append(calls, <<m.role, contentText(m.content)>>),
                   id + 1, Tail(t), hardMax)
       ELSE replay(ms, calls, id, Tail(t), hardMax)

\* What runGoal does around the loop, in the order of its statements.
StartedLine == "progress: Agent started"
FinishedLine == "progress: Agent finished."
LoopInvoked == "runLoop invoked"
LoopReturned == "runLoop returned"
LoopThrew == "runLoop threw"
AddMessageCall == "addMessage"

\* progress('Agent started...'); const res = await this.orchestrator.runLoop(...)
eventsToLoop == <<StartedLine, LoopInvoked>>

\* Mutant: the history is replayed before the closing progress line.
eventsAfterLoopFinishLast(calls) ==
  [i \in 1..Len(calls) |-> AddMessageCall] \o <<FinishedLine>>

\* progress('Agent finished.'); for (const m of res.messages) addMessage(...)
eventsAfterLoop(calls) ==
  <<FinishedLine>> \o [i \in 1..Len(calls) |-> AddMessageCall]

TraceIdle == goalEvents = <<>>

WorkflowIdle ==
  /\ wfPc = "idle" /\ hasTools = FALSE /\ hasOrchestrator = FALSE
  /\ goals = 0 /\ goalResult = NoOutcome /\ progressLines = <<>>
  /\ toolCalls = 0 /\ retrievals = 0 /\ transcript = <<>>
  /\ addCalls = <<>> /\ replayFrom = 0

\* new AgenticWorkflow(ragService, contextManager, opts)
WorkflowInit ==
  /\ wfPc = "ready" /\ hasTools \in BOOLEAN /\ hasOrchestrator \in BOOLEAN
  /\ goals = 0 /\ goalResult = NoOutcome /\ progressLines = <<>>
  /\ toolCalls = 0 /\ retrievals = 0 /\ transcript = <<>>
  /\ addCalls = <<>> /\ replayFrom = 0

\* buildToolSpecs(): the names of the catalog, in the order of the literal.
buildToolSpecs ==
  <<"read_file", "write_file", "apply_patch", "delete_path", "list_files",
    "search_in_workspace", "run_command", "get_diagnostics", "git_status",
    "git_commit", "git_revert">>

CatalogIdle == toolSpecs = <<>>

\* runGoal up to its await of runLoop: the configuration test, then
\* getOptimizedContext(goal), progress('Agent started...') and the runLoop call
RunGoal ==
  /\ wfPc = "ready"
  /\ goals < MaxGoals
  /\ goals' = goals + 1
  /\ IF ~isConfigured(hasTools, hasOrchestrator)
     THEN /\ goalResult' = Rejected(ConfigError)
          /\ goalEvents' = <<>>
          /\ UNCHANGED <<wfPc, progressLines, retrievals, cmVars, toolSpecs>>
     ELSE /\ OptimizedContext
          /\ retrievals' = retrievals + 1
          /\ toolSpecs' = buildToolSpecs
          /\ progressLines' = Append(progressLines, "Agent started")
          /\ goalEvents' = eventsToLoop
          /\ goalResult' = NoOutcome
          /\ wfPc' = "loop"
  /\ UNCHANGED <<hasTools, hasOrchestrator, toolCalls, transcript, addCalls, replayFrom>>
  /\ UNCHANGED <<cfgVars, polVars, toolVars, procVars, parseVars, turnVars, intentVars, panelVars, agentVars, sumVars, gitVars, execVars>>

\* runLoop resolves with res: progress('Agent finished.'), the replay of
\* res.messages into the ContextManager, return res.  The orchestrator has
\* invoked a tool for every tool message of its transcript.
RunLoopResolves ==
  /\ wfPc = "loop"
  /\ \E t \in Transcripts :
       LET r == replay(messages, <<>>, nextId, t, hardMaxTokens) IN
         /\ transcript' = t
         /\ toolCalls' = toolCalls + ToolMessages(t)
         /\ messages' = r.messages
         /\ addCalls' = r.calls
         /\ goalEvents' = Append(goalEvents, LoopReturned) \o eventsAfterLoop(r.calls)
         /\ nextId' = r.nextId
         /\ lastOp' = IF r.calls = <<>> THEN lastOp ELSE "addMessage"
  /\ replayFrom' = nextId
  /\ progressLines' = Append(progressLines, "Agent finished")
  /\ goalResult' = Fulfilled
  /\ wfPc' = "ready"
  /\ afterAppend' = <<>>
  /\ UNCHANGED <<conversationSummary, inputs, ctx>>
  /\ cfgUnchanged
  /\ UNCHANGED <<hasTools, hasOrchestrator, goals, retrievals>>
  /\ UNCHANGED <<cfgVars, polVars, toolVars, procVars, parseVars, turnVars, intentVars, panelVars, agentVars, catalogVars, sumVars, gitVars, execVars>>

\* runLoop rejects: runGoal rejects with the same error, nothing is replayed.
RunLoopRejects ==
  /\ wfPc = "loop"
  /\ goalResult' = Rejected(LoopError)
  /\ goalEvents' = Append(goalEvents, LoopThrew)
  /\ wfPc' = "ready"
  /\ UNCHANGED <<hasTools, hasOrchestrator, goals, progressLines, toolCalls,
                 retrievals, transcript, addCalls, replayFrom>>
  /\ UNCHANGED <<cmVars, cfgVars, polVars, toolVars, procVars, parseVars, turnVars, intentVars, panelVars, agentVars, catalogVars, sumVars, gitVars, execVars>>

WorkflowNext ==
  \/ RunGoal
  \/ RunLoopResolves
  \/ RunLoopRejects

\* --------------------------------------------- AgenticWorkflow.analyzeIntent
UpperLetters == "ABCDEFGHIJKLMNOPQRSTUVWXYZ"
LowerLetters == "abcdefghijklmnopqrstuvwxyz"
CharAt(s, i) == SubSeq(s, i, i)
toLowerChar(c) ==
  IF \E i \in 1..Len(UpperLetters) : CharAt(UpperLetters, i) = c
  THEN CharAt(LowerLetters, CHOOSE i \in 1..Len(UpperLetters) : CharAt(UpperLetters, i) = c)
  ELSE c
\* query.toLowerCase()
RECURSIVE toLowerCase(_)
toLowerCase(s) ==
  IF Len(s) = 0 THEN ""
  ELSE toLowerChar(CharAt(s, 1)) \o toLowerCase(SubSeq(s, 2, Len(s)))
\* s.includes(k)
includes(s, k) ==
  \E i \in 1..(Len(s) - Len(k) + 1) : SubSeq(s, i, i + Len(k) - 1) = k

\* intentKeywords, in the order Object.entries walks it
intentKeywords ==
  << [intent |-> "codeReview",
      keywords |-> <<"review", "check", "audit", "examine", "inspect">>],
     [intent |-> "bugFinder",
      keywords |-> <<"bug", "error", "issue", "problem", "fix", "debug">>],
     [intent |-> "testGen",
      keywords |-> <<"test", "unit", "spec", "coverage", "testing">>],
     [intent |-> "refactor",
      keywords |-> <<"refactor", "improve", "optimize", "clean", "restructure">>],
     [intent |-> "documentation",
      keywords |-> <<"document", "comment", "explain", "describe", "doc">>],
     [intent |-> "optimization",
      keywords |-> <<"optimize", "performance", "speed", "efficient", "fast">>] >>

\* keywords.some((k) => queryLower.includes(k))
someKeyword(keywords, queryLower) ==
  \E j \in DOMAIN keywords : includes(queryLower, keywords[j])

\* A variant of the loop in which a later match replaces an earlier one.
RECURSIVE matchIntentLast(_, _, _)
matchIntentLast(entries, queryLower, i) ==
  IF i > Len(entries) THEN "general"
  ELSE IF matchIntentLast(entries, queryLower, i + 1) # "general"
       THEN matchIntentLast(entries, queryLower, i + 1)
  ELSE IF someKeyword(entries[i].keywords, queryLower) THEN entries[i].intent
  ELSE "general"

\* for (const [intent, keywords] of Object.entries(intentKeywords)) from entry
\* i on: return the first intent with a keyword in the query, else 'general'
RECURSIVE matchIntent(_, _, _)
matchIntent(entries, queryLower, i) ==
  IF i > Len(entries) THEN "general"
  ELSE IF someKeyword(entries[i].keywords, queryLower) THEN entries[i].intent
  ELSE matchIntent(entries, queryLower, i + 1)

analyzeIntent(q) == matchIntent(intentKeywords, toLowerCase(q), 1)

\* Queries a user may type.
QueryCores ==
  {"hello", "refactor", "REVIEW", "Fix the bug", "latest", "respect",
   "Optimize", "performance", "Document", "explain the fast path", "tidy up",
   "speed"}
Queries ==
  {before \o core \o after :
     before \in {"", "Please "}, core \in QueryCores, after \in {"", " this loop"}}
  \cup {""}

IntentIdle == intentQuery = "" /\ intent = "" /\ returned = {}

\* analyzeIntent over the queries of the model.
IntentOf == [q \in Queries |-> analyzeIntent(q)]

\* await workflow.analyzeIntent(q)
AnalyzeIntent ==
  /\ \E q \in Queries :
       /\ intentQuery' = q
       /\ intent' = IntentOf[q]
       /\ returned' = returned \cup {IntentOf[q]}
  /\ UNCHANGED <<cmVars, cfgVars, polVars, toolVars, procVars, parseVars, turnVars,
                 wfVars, panelVars, agentVars, catalogVars, sumVars, gitVars, execVars, traceVars>>

\* ------------------------------------------------------------- chat panel
\* The chat panel of activate(): the panel memory, its persisted copy and the
\* ContextManager instance that AgenticWorkflow.executeWorkflow reads and feeds.
\* The provider call and the parse-and-write part of the 'prompt' handler touch
\* none of these and are modelled by TurnSpec.
MaxPrompts == 3
GeneralPromptFrame == 253
ShouldSummarizeTokens == 1500
ShouldSummarizeCount == 20

\* What globalState holds under CONVERSATION_STORAGE_KEY at activation, as
\* sequences of <<role, length>>: nothing, one short exchange, a long history.
StoredConversations ==
  { <<>>,
    << <<"user", 90>>, <<"assistant", 200>> >>,
    << <<"user", 90>>, <<"assistant", 3000>>, <<"user", 90>>, <<"assistant", 3000>>,
       <<"user", 90>>, <<"assistant", 3000>>, <<"user", 90>>, <<"assistant", 3000>> >> }
PromptLens == {7, 90}
NoOptions == [hardMaxTokens |-> Undefined, targetContextTokens |-> Undefined,
              recentHistoryCount |-> Undefined, summarizeMinMessages |-> Undefined,
              maxTokens |-> Undefined]

\* loadConversation: the user and assistant messages of the stored value.
loadConversation(stored) == UserAssistantOnly(Numbered(stored, 1))

\* executeGeneralQuery: the template around the context and the query, trimmed.
executeGeneralQuery(queryLen, contextLen) == GeneralPromptFrame + contextLen + queryLen

shouldSummarize(ms, hardMax) ==
  \/ estimateTokens(TotalChars(ms)) > Max(ShouldSummarizeTokens, (hardMax * 6) \div 10)
  \/ Len(ms) > ShouldSummarizeCount

\* The messages whose text getOptimizedContext puts in the returned string.
contextHistory(r, ms, recentCount) ==
  IF r.over THEN getRecentHistory(r.messages, Max(TightFloor, recentCount \div 2))
  ELSE getRecentHistory(ms, recentCount)

\* executeWorkflow steps 3 to 5 for a general query: the user message, then the
\* assistant message carrying the built prompt, each through addMessage.
workflowAppends(r, queryLen, id, hardMax) ==
  trimHardMax(Append(trimHardMax(Append(r.messages, Msg("user", queryLen, id)), hardMax),
                     Msg("assistant", executeGeneralQuery(queryLen, r.ctx), id + 1)),
              hardMax)

\* executeWorkflow step 6.
workflowSummarize(ms, summary, recentCount, minMessages, hardMax) ==
  IF shouldSummarize(ms, hardMax)
  THEN summarizeConversation(ms, summary, recentCount, minMessages)
  ELSE [messages |-> ms, summary |-> summary, effective |-> FALSE]

PanelIdle ==
  /\ conversationMemory = <<>>
  /\ storedConversation = <<>>
  /\ panelOp = "idle"
  /\ promptHistory = <<>>
  /\ clearedAt = 0
  /\ prompts = 0

\* activate(): the ContextManager is hydrated from the stored conversation and
\* the panel memory is loaded from the same value.
PanelInit ==
  \E stored \in StoredConversations :
    /\ CtorInit(NoOptions, stored, Undefined)
    /\ storedConversation = Numbered(stored, 1)
    /\ conversationMemory = loadConversation(stored)
    /\ panelOp = "idle"
    /\ promptHistory = <<>>
    /\ clearedAt = 0
    /\ prompts = 0

\* case 'prompt': executeWorkflow on the shared ContextManager, then the user
\* message is appended to the panel memory and saved.
PanelPrompt ==
  /\ prompts < MaxPrompts
  /\ \E q \in PromptLens, rag \in RagLens :
       \E r \in {getOptimizedContext(messages, conversationSummary, recentHistoryCount,
                                     summarizeMinMessages, targetContextTokens, q, rag)} :
         \E appended \in {workflowAppends(r, q, nextId, hardMaxTokens)} :
           \E done \in {workflowSummarize(appended, r.summary, recentHistoryCount,
                                          summarizeMinMessages, hardMaxTokens)} :
             /\ ctx' = r.ctx
             /\ promptHistory' = contextHistory(r, messages, recentHistoryCount)
             /\ messages' = done.messages
             /\ conversationSummary' = done.summary
             /\ conversationMemory' = Append(conversationMemory, Msg("user", q, nextId))
  /\ storedConversation' = conversationMemory'
  /\ nextId' = nextId + 2
  /\ inputs' = inputs + 2
  /\ prompts' = prompts + 1
  /\ panelOp' = "prompt"
  /\ lastOp' = "executeWorkflow"
  /\ afterAppend' = <<>>
  /\ cfgUnchanged
  /\ UNCHANGED clearedAt
  /\ UNCHANGED <<cfgVars, polVars, toolVars, procVars, parseVars, turnVars, wfVars, intentVars, agentVars, catalogVars, sumVars, gitVars, execVars, traceVars>>

\* case 'clearMemory': the panel memory is emptied and saved.
PanelClearMemory ==
  /\ conversationMemory' = <<>>
  /\ storedConversation' = conversationMemory'
  /\ panelOp' = "clearMemory"
  /\ clearedAt' = nextId
  /\ UNCHANGED <<promptHistory, prompts>>
  /\ UNCHANGED <<cmVars, cfgVars, polVars, toolVars, procVars, parseVars, turnVars, wfVars,
                 intentVars, agentVars, catalogVars, sumVars, gitVars, execVars, traceVars>>



\* ------------------------------------------------------------- BasicAgent
\* One generateCompletion call, from the fetch to the settlement of the
\* returned promise.  An error is [name, message]; an HTTP status is kept as
\* the decimal text the template strings interpolate.
MaxAgentCalls == 2
NoCause == [name |-> "<none>", message |-> ""]
NoResponse == [status |-> "", kind |-> "none", text |-> ""]
Unsettled == [state |-> "pending", value |-> ""]

\* What fetch rejects with.
FetchErrors ==
  { [name |-> "TypeError", message |-> "fetch failed"],
    [name |-> "Error", message |-> "getaddrinfo ENOTFOUND api.together.xyz"],
    [name |-> "Error", message |-> "connect ECONNREFUSED 10.0.0.1:443"],
    [name |-> "AbortError", message |-> "This operation was aborted"],
    [name |-> "Error", message |-> "Mock error"],
    [name |-> "Error", message |-> "read ECONNRESET"],
    [name |-> "Error", message |-> "timeout after 4290 ms"],
    [name |-> "Error", message |-> ""] }

\* What fetch resolves with: a status and what reading the body gives.
\* kind "text": the body text; "textFails": reading it rejects; "content":
\* JSON whose choices[0].message.content is the text; "noChoices": JSON with an
\* empty choices array; "noMessage": a first choice without message; "null":
\* the JSON value null; "badJson": a body that is not JSON.
Responses ==
  { [status |-> st, kind |-> "text", text |-> t] :
      st \in {"401", "429", "500", "403"}, t \in {"", "Unauthorized", "quota 4070 used"} }
  \cup { [status |-> "500", kind |-> "textFails", text |-> ""] }
  \cup { [status |-> "200", kind |-> "content", text |-> t] : t \in {"hi", ""} }
  \cup { [status |-> "200", kind |-> k, text |-> ""] :
           k \in {"noChoices", "noMessage", "null", "badJson"} }

ok(res) == res.status = "200"

\* String(err) of an Error object
errorToString(caught) ==
  IF caught.message = "" THEN caught.name ELSE caught.name \o ": " \o caught.message

\* err?.message || err, as the text it contributes to a string
messageOrError(caught) == IF caught.message # "" THEN caught.message ELSE errorToString(caught)

\* BasicAgent.ts: the error thrown inside the try block for a response.
\* NoCause when the call returns data.choices[0].message.content.
thrownInTry(res) ==
  IF ~ok(res)
  THEN IF res.kind = "textFails" THEN [name |-> "TypeError", message |-> "terminated"]
       ELSE [name |-> "Error", message |-> "API Error " \o res.status \o ": " \o res.text]
  ELSE CASE res.kind = "badJson" ->
              [name |-> "SyntaxError",
               message |-> "Unexpected token < in JSON at position 0"]
         [] res.kind = "noMessage" ->
              [name |-> "TypeError",
               message |-> "Cannot read properties of undefined (reading 'content')"]
         [] res.kind \in {"noChoices", "null"} ->
              [name |-> "Error", message |-> "No completion generated"]
         [] OTHER -> NoCause

\* BasicAgent.ts: the catch block; the message of the error it throws.
rethrowDropsMessage(caught) ==
  IF includes(caught.message, "fetch failed") \/ includes(caught.message, "ENOTFOUND")
  THEN "Network error: Unable to connect to Together AI API. Please check your internet connection and try again."
  ELSE IF includes(caught.message, "401")
  THEN "Invalid Together AI API key. Please check your credentials."
  ELSE IF includes(caught.message, "429")
  THEN "Rate limit exceeded. Please wait and try again later."
  ELSE "Failed to generate code"

rethrow(caught) ==
  IF includes(caught.message, "fetch failed") \/ includes(caught.message, "ENOTFOUND")
  THEN "Network error: Unable to connect to Together AI API. Please check your internet connection and try again."
  ELSE IF includes(caught.message, "401")
  THEN "Invalid Together AI API key. Please check your credentials."
  ELSE IF includes(caught.message, "429")
  THEN "Rate limit exceeded. Please wait and try again later."
  ELSE "Failed to generate code: " \o messageOrError(caught)

\* The undici copy: the error thrown inside the try block for a response.
thrownInTryUndici(res) ==
  IF ~ok(res)
  THEN [name |-> "Error",
        message |-> "Together API HTTP " \o res.status \o " - "
                    \o (IF res.kind = "textFails" THEN "" ELSE res.text)]
  ELSE IF res.kind = "badJson"
  THEN [name |-> "SyntaxError", message |-> "Unexpected token < in JSON at position 0"]
  ELSE IF res.kind = "content" /\ res.text # "" THEN NoCause
  ELSE [name |-> "Error",
        message |-> "Together API returned no choices.message.content"]

\* The undici copy: the catch block, msg being String(err?.message || err).
rethrowUndiciMsg(caught, msg) ==
  IF caught.name = "AbortError"
  THEN "Request to Together AI API timed out after 90 seconds."
  ELSE IF includes(msg, "ENOTFOUND") \/ includes(msg, "getaddrinfo")
  THEN "DNS error resolving api.together.xyz from VS Code. Check proxy/Firewall/DNS."
  ELSE IF includes(msg, "ECONNREFUSED")
  THEN "Connection refused to api.together.xyz. Check firewall or corporate proxy rules."
  ELSE IF includes(msg, "401")
  THEN "Together API rejected the key (401). Double-check the key in Settings."
  ELSE IF includes(msg, "403")
  THEN "Access forbidden (403). The model may be restricted for your account."
  ELSE IF includes(msg, "407")
  THEN "Proxy authentication required (407). Configure proxy settings in VS Code."
  ELSE "Network error contacting Together API: " \o msg
rethrowUndici(caught) == rethrowUndiciMsg(caught, messageOrError(caught))

Rejection(build, caught) ==
  [state |-> "rejected",
   value |-> IF build = "fetch" THEN rethrow(caught) ELSE rethrowUndici(caught)]

AgentIdle ==
  /\ agentBuild = "fetch"
  /\ agentPc = "idle"
  /\ agentCalls = 0
  /\ agentResponse = NoResponse
  /\ agentCause = NoCause
  /\ completion = Unsettled

AgentInit ==
  /\ agentBuild \in {"fetch", "undici"}
  /\ agentPc = "idle"
  /\ agentCalls = 0
  /\ agentResponse = NoResponse
  /\ agentCause = NoCause
  /\ completion = Unsettled

AgentOthers ==
  UNCHANGED <<cmVars, cfgVars, polVars, toolVars, procVars, parseVars, turnVars, wfVars,
              intentVars, panelVars, catalogVars, sumVars, gitVars, execVars, traceVars>>

\* generateCompletion is called: the request is built and fetch is awaited.
GenerateCompletion ==
  /\ agentPc \in {"idle", "settled"}
  /\ agentCalls < MaxAgentCalls
  /\ agentPc' = "fetching"
  /\ agentCalls' = agentCalls + 1
  /\ agentResponse' = NoResponse
  /\ agentCause' = NoCause
  /\ completion' = Unsettled
  /\ UNCHANGED agentBuild
  /\ AgentOthers

\* fetch rejects: the catch block runs and throws.
FetchRejects ==
  /\ agentPc = "fetching"
  /\ \E e \in FetchErrors :
       /\ agentCause' = e
       /\ completion' = Rejection(agentBuild, e)
  /\ agentPc' = "settled"
  /\ UNCHANGED <<agentBuild, agentCalls, agentResponse>>
  /\ AgentOthers

\* fetch resolves with a Response.
FetchResolves ==
  /\ agentPc = "fetching"
  /\ agentResponse' \in Responses
  /\ agentPc' = "responded"
  /\ UNCHANGED <<agentBuild, agentCalls, agentCause, completion>>
  /\ AgentOthers

\* The rest of the try block: the status test, the body, the choices.
ReadResponse ==
  /\ agentPc = "responded"
  /\ \E e \in {IF agentBuild = "fetch" THEN thrownInTry(agentResponse)
               ELSE thrownInTryUndici(agentResponse)} :
       /\ agentCause' = e
       /\ completion' = IF e = NoCause
                        THEN [state |-> "fulfilled", value |-> agentResponse.text]
                        ELSE Rejection(agentBuild, e)
  /\ agentPc' = "settled"
  /\ UNCHANGED <<agentBuild, agentCalls, agentResponse>>
  /\ AgentOthers



\* ------------------------------------------------------- summary as text
\* The summary as a text, to follow which characters a summarization keeps.
\* A text is a sequence of segments [src, gen, from, to]: the characters from
\* to to of a source text.  Sources are "initial" (the initialSummary option),
\* "digest" (the gen-th result of synthesizeSummary), "space" (blanks around an
\* initial summary), "blank" (the "\n" + "" + "\n" of the join) and "marker"
\* ("\n…[truncated]").  An initial summary and a digest neither start nor end
\* with white space.
MaxSummaries == 3
Seg(src, gen, from, to) == [src |-> src, gen |-> gen, from |-> from, to |-> to]
SegLen(g) == g.to - g.from + 1
Marker == <<Seg("marker", 0, 1, TruncMarkLen)>>
BlankLine == <<Seg("blank", 0, 1, 2)>>
WhiteSources == {"space", "blank"}

RECURSIVE TextLen(_)
TextLen(t) == IF t = <<>> THEN 0 ELSE SegLen(Head(t)) + TextLen(Tail(t))

\* text.slice(0, n)
RECURSIVE TextSlice(_, _)
TextSlice(t, n) ==
  IF n <= 0 \/ t = <<>> THEN <<>>
  ELSE IF SegLen(Head(t)) <= n
  THEN <<Head(t)>> \o TextSlice(Tail(t), n - SegLen(Head(t)))
  ELSE <<Seg(Head(t).src, Head(t).gen, Head(t).from, Head(t).from + n - 1)>>

\* text.startsWith(p)
startsWith(t, p) == TextSlice(t, TextLen(p)) = p

\* text.trim()
RECURSIVE trimStart(_)
trimStart(t) ==
  IF t # <<>> /\ Head(t).src \in WhiteSources THEN trimStart(Tail(t)) ELSE t
RECURSIVE trimEnd(_)
trimEnd(t) ==
  IF t # <<>> /\ t[Len(t)].src \in WhiteSources
  THEN trimEnd(SubSeq(t, 1, Len(t) - 1)) ELSE t
trimText(t) == trimEnd(trimStart(t))

safeClipText(t, max) ==
  IF t = <<>> THEN <<>>
  ELSE IF TextLen(t) <= max THEN t
  ELSE TextSlice(t, Max(0, max - ClipSlack)) \o Marker

\* Mutant: the join written with the new digest first.
mergeTrimmedNewestFirst(a, b) ==
  IF a = <<>> THEN b
  ELSE IF b = <<>> THEN a
  ELSE IF TextLen(b \o BlankLine \o a) > MergeCap
  THEN safeClipText(b \o BlankLine \o a, MergeCap)
  ELSE b \o BlankLine \o a

\* mergeSummaries after the two trims
mergeTrimmed(a, b) ==
  IF a = <<>> THEN b
  ELSE IF b = <<>> THEN a
  ELSE IF TextLen(a \o BlankLine \o b) > MergeCap
  THEN safeClipText(a \o BlankLine \o b, MergeCap)
  ELSE a \o BlankLine \o b

mergeSummariesText(prev, next) == mergeTrimmed(trimText(prev), trimText(next))

\* What the constructor can be given as initialSummary.
InitialTexts ==
  { <<>>,
    <<Seg("initial", 0, 1, 900)>>,
    <<Seg("initial", 0, 1, 1180)>>,
    <<Seg("initial", 0, 1, 1700)>>,
    <<Seg("space", 0, 1, 1), Seg("initial", 0, 1, 900), Seg("space", 1, 1, 2)>>,
    <<Seg("space", 0, 1, 3)>> }

\* What synthesizeSummary(joined, 1200) can return for a window of at least
\* four user and assistant messages: never empty (the role words are topics),
\* at most 1200 characters, clipped by safeClip beyond that.
DigestLens == {10, 200, 400, 1200}
Digests(gen) ==
  { <<Seg("digest", gen, 1, n)>> : n \in DigestLens }
  \cup { <<Seg("digest", gen, 1, SummaryClip - ClipSlack)>> \o Marker }

SummaryIdle ==
  /\ summaryText = <<>>
  /\ previousSummary = <<>>
  /\ lastDigest = <<>>
  /\ summaries = 0

SummaryInit ==
  /\ summaryText \in InitialTexts
  /\ previousSummary = <<>>
  /\ lastDigest = <<>>
  /\ summaries = 0

\* summarizeConversation past its two early returns: the digest of the window
\* is merged into the summary and the result clipped.
SummaryTakesEffect ==
  /\ summaries < MaxSummaries
  /\ \E newlySynthesized \in Digests(summaries + 1) :
       /\ lastDigest' = newlySynthesized
       /\ summaryText' =
            safeClipText(mergeSummariesText(summaryText, newlySynthesized), SummaryClip)
  /\ previousSummary' = summaryText
  /\ summaries' = summaries + 1
  /\ UNCHANGED <<cmVars, cfgVars, polVars, toolVars, procVars, parseVars, turnVars, wfVars,
                 intentVars, panelVars, agentVars, catalogVars, gitVars, execVars, traceVars>>


\* --------------------------------------------- git_commit, step by step
\* One git_commit call followed through its two child processes: cp.exec
\* starts a command and calls back when the command has ended; sh resolves in
\* that callback, and git_commit awaits the promise of 'git add -A' before it
\* calls sh for the commit.
MaxCommits == 4
CommitMessages == {"", "AI iteration", "wip"}

Started(cmd) == [ev |-> "started", cmd |-> cmd, env |-> CHOOSE x \in ExecEnvs : ~x.failed]
Ended(cmd, env) == [ev |-> "ended", cmd |-> cmd, env |-> env]
AddCommand == "git add -A"
CommitCommand(message) == "git commit -m \"" \o message \o "\""

GitIdle ==
  /\ gitPc = "idle" /\ gitLog = <<>> /\ gitMessage = "" /\ gitRet = Fail(Absent)
  /\ gitCalls = 0

\* git_commit(args) up to its first await (or its early return).
GitCommit ==
  /\ gitPc \in {"idle", "done"}
  /\ gitCalls < MaxCommits
  /\ \E message \in CommitMessages :
       /\ gitMessage' = message
       /\ IF message = "" \/ ~workspaceOpen
          THEN /\ gitPc' = "done"
               /\ gitLog' = <<>>
               /\ \E env \in {CHOOSE x \in ExecEnvs : TRUE} :
                    gitRet' = git_commit(message, workspaceOpen, files, env, env).result
          ELSE /\ gitPc' = "add"
               /\ gitLog' = <<Started(AddCommand)>>
               /\ gitRet' = Fail(Absent)
  /\ gitCalls' = gitCalls + 1
  /\ UNCHANGED <<cmVars, cfgVars, polVars, toolVars, procVars, parseVars, turnVars, wfVars,
                 intentVars, panelVars, agentVars, catalogVars, sumVars, execVars, traceVars>>

\* The callback of 'git add -A': its promise resolves whatever the command
\* did, git_commit resumes and calls sh for the commit.
AddEnds ==
  /\ gitPc = "add"
  /\ \E env \in ExecEnvs :
       gitLog' = gitLog \o <<Ended(AddCommand, env), Started(CommitCommand(gitMessage))>>
  /\ gitPc' = "commit"
  /\ UNCHANGED <<gitMessage, gitRet, gitCalls>>
  /\ UNCHANGED <<cmVars, cfgVars, polVars, toolVars, procVars, parseVars, turnVars, wfVars,
                 intentVars, panelVars, agentVars, catalogVars, sumVars, execVars, traceVars>>

\* The callback of 'git commit': git_commit resolves to what sh resolved to.
CommitEnds ==
  /\ gitPc = "commit"
  /\ \E env \in ExecEnvs :
       /\ gitLog' = Append(gitLog, Ended(CommitCommand(gitMessage), env))
       /\ gitRet' = git_commit(gitMessage, workspaceOpen, files, gitLog[2].env, env).result
  /\ gitPc' = "done"
  /\ UNCHANGED <<gitMessage, gitCalls>>
  /\ UNCHANGED <<cmVars, cfgVars, polVars, toolVars, procVars, parseVars, turnVars, wfVars,
                 intentVars, panelVars, agentVars, catalogVars, sumVars, execVars, traceVars>>

\* ------------------------------------- executeWorkflow on the event loop
\* executeWorkflow followed from await to await.  Every promise it awaits is
\* settled by synchronous code (analyzeIntent, RAGService.search, the prompt
\* builders and summarizeConversation hold no await of their own), so a call
\* suspended at an await is resumed by a microtask, in the order the
\* continuations were queued.  The webview host hands a prompt message to the
\* chat handler in a task of its own or right after another message of the
\* same task; the handler runs executeWorkflow up to its first await.
\* The queries of this model hold no intent keyword (analyzeIntent returns
\* 'general').
MaxFlows == 2
WorkflowThrows ==
  { [name |-> "Error", message |-> "boom"],
    [name |-> "<thrown string>", message |-> ""] }
NoFlow ==
  [pc |-> "none", query |-> 0, ragLen |-> 0, ctxLen |-> NoResult, promptLen |-> NoResult,
   before |-> [messages |-> <<>>, summary |-> 0], alone |-> TRUE,
   userId |-> 0, asstId |-> 0, afterAppends |-> <<>>, summarized |-> FALSE,
   thrown |-> NoCause, settled |-> "pending", errorText |-> ""]

ExecIdle == flows = [c \in 1..MaxFlows |-> NoFlow] /\ microtasks = <<>>

Active(c) == flows[c].pc \notin {"none", "done"}

\* The catch block of executeWorkflow: the promise resolves to the error text.
executeWorkflowRethrows(caught) ==
  [settled |-> "rejected",
   errorText |-> IF caught.message # "" THEN caught.message ELSE "Unknown error"]

executeWorkflowCatch(caught) ==
  [settled |-> "resolved",
   errorText |-> "Sorry, I encountered an error: "
                   \o (IF caught.message # "" THEN caught.message ELSE "Unknown error")]

\* contextManager.addMessage('user', userQuery)
addUserMessage(ms, queryLen, id, hardMax) ==
  trimHardMax(Append(ms, Msg("user", queryLen, id)), hardMax)

\* Mutant: the query is recorded as the assistant's turn.
addAssistantMessageEchoesQuery(ms, queryLen, resultLen, id, hardMax) ==
  trimHardMax(Append(ms, Msg("assistant", queryLen, id)), hardMax)

\* contextManager.addMessage('assistant', result)
addAssistantMessage(ms, queryLen, resultLen, id, hardMax) ==
  trimHardMax(Append(ms, Msg("assistant", resultLen, id)), hardMax)

Caught(c) == flows[c].thrown # NoCause
Runs(c, at) == microtasks # <<>> /\ Head(microtasks) = c /\ flows[c].pc = at
\* The call is suspended at the next await / its promise has settled.
Suspends(c, at, f) ==
  /\ flows' = [flows EXCEPT ![c] = [f EXCEPT !.pc = at]]
  /\ microtasks' = Append(Tail(microtasks), c)
Settles(c, f, how) ==
  /\ flows' = [flows EXCEPT ![c] = [f EXCEPT !.pc = "done", !.settled = how.settled,
                                             !.errorText = how.errorText]]
  /\ microtasks' = Tail(microtasks)
cmObservationUnchanged == UNCHANGED <<inputs, lastOp, afterAppend, ctx>> /\ cfgUnchanged
cmUntouched == UNCHANGED <<messages, conversationSummary, nextId>> /\ cmObservationUnchanged
execOthers ==
  UNCHANGED <<cfgVars, polVars, toolVars, procVars, parseVars, turnVars, wfVars,
              intentVars, panelVars, agentVars, catalogVars, sumVars, gitVars, traceVars>>

\* case 'prompt': the handler calls executeWorkflow, which calls analyzeIntent
\* and is suspended at its await.
PromptArrives ==
  /\ \A c \in 1..MaxFlows : flows[c].pc \in {"none", "done", "intent"}
  /\ \E c \in 1..MaxFlows :
       /\ flows[c].pc = "none"
       /\ \A d \in 1..(c - 1) : flows[d].pc # "none"
       /\ \E queryLen \in PromptLens :
            flows' = [d \in 1..MaxFlows |->
                        IF d = c
                        THEN [NoFlow EXCEPT !.pc = "intent", !.query = queryLen,
                                !.before = [messages |-> messages,
                                            summary |-> conversationSummary],
                                !.alone = \A x \in 1..MaxFlows : ~Active(x)]
                        ELSE IF Active(d) THEN [flows[d] EXCEPT !.alone = FALSE]
                        ELSE flows[d]]
       /\ microtasks' = Append(microtasks, c)
  /\ cmUntouched /\ execOthers

\* await analyzeIntent: then getOptimizedContext up to the await inside
\* getContextForQuery.
ResumeIntent ==
  \E c \in 1..MaxFlows :
    /\ Runs(c, "intent")
    /\ \/ Suspends(c, "search", flows[c])
       \/ \E e \in WorkflowThrows :
            Settles(c, [flows[c] EXCEPT !.thrown = e], executeWorkflowCatch(e))
    /\ cmUntouched /\ execOthers

\* await this.search(query, 3) in getContextForQuery, which then returns.
ResumeSearch ==
  \E c \in 1..MaxFlows :
    /\ Runs(c, "search")
    /\ \/ \E found \in RagLens : Suspends(c, "rag", [flows[c] EXCEPT !.ragLen = found])
       \/ \E e \in WorkflowThrows : Suspends(c, "rag", [flows[c] EXCEPT !.thrown = e])
    /\ cmUntouched /\ execOthers

\* await this.ragService.getContextForQuery in getOptimizedContext: the
\* sections are assembled; over the budget, summarizeConversation is called
\* and awaited.
ResumeRag ==
  \E c \in 1..MaxFlows :
    /\ Runs(c, "rag")
    /\ \E first \in {Assemble(flows[c].ragLen, conversationSummary,
                              getRecentHistory(messages, recentHistoryCount),
                              flows[c].query)} :
         \/ /\ Caught(c)
            /\ Suspends(c, "context", flows[c])
            /\ UNCHANGED <<messages, conversationSummary>>
         \/ /\ ~Caught(c)
            /\ \E e \in WorkflowThrows :
                 Suspends(c, "context", [flows[c] EXCEPT !.thrown = e])
            /\ UNCHANGED <<messages, conversationSummary>>
         \/ /\ ~Caught(c)
            /\ estimateTokens(first) <= targetContextTokens
            /\ Suspends(c, "context", [flows[c] EXCEPT !.ctxLen = first])
            /\ UNCHANGED <<messages, conversationSummary>>
         \/ /\ ~Caught(c)
            /\ estimateTokens(first) > targetContextTokens
            /\ \E s \in {summarizeConversation(messages, conversationSummary,
                                               recentHistoryCount, summarizeMinMessages)} :
                 /\ messages' = s.messages
                 /\ conversationSummary' = s.summary
            /\ Suspends(c, "resummarize", flows[c])
    /\ UNCHANGED nextId /\ cmObservationUnchanged /\ execOthers

\* await this.summarizeConversation() in getOptimizedContext: the compact
\* context is built from the tighter recent slice.
ResumeResummarize ==
  \E c \in 1..MaxFlows :
    /\ Runs(c, "resummarize")
    /\ Suspends(c, "context",
                [flows[c] EXCEPT !.ctxLen =
                   Assemble(flows[c].ragLen, conversationSummary,
                            getRecentHistory(messages,
                                             Max(TightFloor, recentHistoryCount \div 2)),
                            flows[c].query)])
    /\ cmUntouched /\ execOthers

\* await this.contextManager.getOptimizedContext: the user message is added
\* and the prompt builder is called and awaited.
ResumeContext ==
  \E c \in 1..MaxFlows :
    /\ Runs(c, "context")
    /\ \/ /\ Caught(c)
          /\ Settles(c, flows[c], executeWorkflowCatch(flows[c].thrown))
          /\ UNCHANGED <<messages, nextId>>
       \/ /\ ~Caught(c)
          /\ messages' = addUserMessage(messages, flows[c].query, nextId, hardMaxTokens)
          /\ nextId' = nextId + 1
          /\ \/ Suspends(c, "execute",
                         [flows[c] EXCEPT !.userId = nextId,
                            !.promptLen = executeGeneralQuery(flows[c].query, flows[c].ctxLen)])
             \/ \E e \in WorkflowThrows :
                  Suspends(c, "execute", [flows[c] EXCEPT !.userId = nextId, !.thrown = e])
    /\ UNCHANGED conversationSummary /\ cmObservationUnchanged /\ execOthers

\* await of the prompt builder: the prompt is added as the assistant message;
\* if shouldSummarize(), summarizeConversation is called and awaited, else the
\* prompt is returned.
ResumeExecute ==
  \E c \in 1..MaxFlows :
    /\ Runs(c, "execute")
    /\ \/ /\ Caught(c)
          /\ Settles(c, flows[c], executeWorkflowCatch(flows[c].thrown))
          /\ UNCHANGED <<messages, conversationSummary, nextId>>
       \/ /\ ~Caught(c)
          /\ nextId' = nextId + 1
          /\ \E added \in {addAssistantMessage(messages, flows[c].query, flows[c].promptLen,
                                               nextId, hardMaxTokens)} :
               \E f \in {[flows[c] EXCEPT !.asstId = nextId, !.afterAppends = added]} :
                 \/ /\ ~shouldSummarize(added, hardMaxTokens)
                    /\ messages' = added
                    /\ UNCHANGED conversationSummary
                    /\ Settles(c, f, [settled |-> "resolved", errorText |-> ""])
                 \/ /\ shouldSummarize(added, hardMaxTokens)
                    /\ \E s \in {summarizeConversation(added, conversationSummary,
                                      recentHistoryCount, summarizeMinMessages)} :
                         /\ messages' = s.messages
                         /\ conversationSummary' = s.summary
                    /\ Suspends(c, "summarize", [f EXCEPT !.summarized = TRUE])
                 \/ /\ shouldSummarize(added, hardMaxTokens)
                    /\ messages' = added
                    /\ UNCHANGED conversationSummary
                    /\ \E e \in WorkflowThrows :
                         Suspends(c, "summarize",
                                  [f EXCEPT !.summarized = TRUE, !.thrown = e])
    /\ cmObservationUnchanged /\ execOthers

\* await this.contextManager.summarizeConversation(): the prompt is returned.
ResumeSummarize ==
  \E c \in 1..MaxFlows :
    /\ Runs(c, "summarize")
    /\ IF Caught(c)
       THEN Settles(c, flows[c], executeWorkflowCatch(flows[c].thrown))
       ELSE Settles(c, flows[c], [settled |-> "resolved", errorText |-> ""])
    /\ cmUntouched /\ execOthers

ExecInit ==
  /\ \E stored \in StoredConversations : CtorInit(NoOptions, stored, Undefined)
  /\ ExecIdle

ExecNext ==
  \/ PromptArrives
  \/ ResumeIntent
  \/ ResumeSearch
  \/ ResumeRag
  \/ ResumeResummarize
  \/ ResumeContext
  \/ ResumeExecute
  \/ ResumeSummarize

\* ------------------------------------------------------- specifications
CMIdle == CtorInit([hardMaxTokens |-> Undefined, targetContextTokens |-> Undefined,
                    recentHistoryCount |-> Undefined,
                    summarizeMinMessages |-> Undefined, maxTokens |-> Undefined],
                   <<>>, Undefined)

\* The ContextManager.
Init ==
  /\ CMInit /\ ConfigIdle /\ PolicyIdle /\ ToolsIdle /\ ProcIdle /\ ParseIdle
  /\ TurnIdle /\ WorkflowIdle /\ IntentIdle /\ PanelIdle /\ AgentIdle
  /\ CatalogIdle /\ SummaryIdle /\ GitIdle /\ ExecIdle /\ TraceIdle
Next == CMNext
Spec == Init /\ [][Next]_vars

\* The path policy as a pure function of its inputs.
PolicySpecInit ==
  /\ PolicyInit /\ CMIdle /\ ToolsIdle /\ ProcIdle /\ ParseIdle /\ TurnIdle
  /\ WorkflowIdle /\ IntentIdle /\ PanelIdle /\ AgentIdle /\ CatalogIdle
  /\ SummaryIdle /\ GitIdle /\ ExecIdle /\ TraceIdle
PolicySpecNext == IsPathAllowed
PolicySpec == PolicySpecInit /\ [][PolicySpecNext]_vars

\* The tool registry, its handlers and the workspace they act on.
ToolSpecInit ==
  /\ ToolsInit /\ CMIdle /\ PolicyIdle /\ ProcIdle /\ ParseIdle /\ TurnIdle
  /\ WorkflowIdle /\ IntentIdle /\ PanelIdle /\ AgentIdle /\ CatalogIdle
  /\ SummaryIdle /\ GitIdle /\ ExecIdle /\ TraceIdle
ToolSpecNext == ToolsNext
ToolSpec == ToolSpecInit /\ [][ToolSpecNext]_vars

\* parseProjectFromAnyText as a function of the reply.
ParseSpecInit ==
  /\ ParseInit /\ CMIdle /\ ConfigIdle /\ PolicyIdle /\ ToolsIdle /\ ProcIdle
  /\ TurnIdle /\ WorkflowIdle /\ IntentIdle /\ PanelIdle /\ AgentIdle
  /\ CatalogIdle /\ SummaryIdle /\ GitIdle /\ ExecIdle /\ TraceIdle
ParseSpecNext == ParseProjectFromAnyText
ParseSpec == ParseSpecInit /\ [][ParseSpecNext]_vars

\* One run_command invocation as the events of the host interleave.
RunSpecInit ==
  /\ RunInit /\ CMIdle /\ ConfigIdle /\ PolicyIdle /\ ParseIdle /\ TurnIdle
  /\ WorkflowIdle /\ IntentIdle /\ PanelIdle /\ AgentIdle /\ CatalogIdle
  /\ SummaryIdle /\ GitIdle /\ ExecIdle /\ TraceIdle
RunSpecNext == RunNext
RunSpec == RunSpecInit /\ [][RunSpecNext]_vars
\* The same, with the host's timers fair: an armed timer that is not cleared
\* runs its callback.
RunFairSpec == RunSpecInit /\ [][RunSpecNext]_vars /\ WF_vars(TimerFires)

\* One chat turn from the arrival of the model's reply.
TurnSpecInit ==
  /\ TurnInit /\ CMIdle /\ ConfigIdle /\ PolicyIdle /\ ProcIdle
  /\ workspaceOpen \in BOOLEAN /\ files = {} /\ call = NoCall
  /\ ParseIdle /\ WorkflowIdle /\ IntentIdle /\ PanelIdle /\ AgentIdle
  /\ CatalogIdle /\ SummaryIdle /\ GitIdle /\ ExecIdle /\ TraceIdle
TurnSpecNext == TurnNext
TurnSpec == TurnSpecInit /\ [][TurnSpecNext]_vars

\* runGoal calls on a workflow over a ContextManager.
WorkflowSpecInit ==
  /\ WorkflowInit /\ CMInit /\ ConfigIdle /\ PolicyIdle /\ ToolsIdle
  /\ ProcIdle /\ ParseIdle /\ TurnIdle /\ IntentIdle /\ PanelIdle
  /\ AgentIdle /\ CatalogIdle /\ SummaryIdle /\ GitIdle /\ ExecIdle
  /\ TraceIdle
WorkflowSpecNext == WorkflowNext
WorkflowSpec == WorkflowSpecInit /\ [][WorkflowSpecNext]_vars

\* analyzeIntent calls, one query after another.
IntentSpecInit ==
  /\ IntentIdle /\ CMIdle /\ ConfigIdle /\ PolicyIdle /\ ToolsIdle
  /\ ProcIdle /\ ParseIdle /\ TurnIdle /\ WorkflowIdle /\ PanelIdle
  /\ AgentIdle /\ CatalogIdle /\ SummaryIdle /\ GitIdle /\ ExecIdle
  /\ TraceIdle
IntentSpecNext == AnalyzeIntent
IntentSpec == IntentSpecInit /\ [][IntentSpecNext]_vars

\* The chat panel: prompts and clearMemory messages, in any order.
PanelSpecInit ==
  /\ PanelInit /\ ConfigIdle /\ PolicyIdle /\ ToolsIdle /\ ProcIdle
  /\ ParseIdle /\ TurnIdle /\ WorkflowIdle /\ IntentIdle /\ AgentIdle
  /\ CatalogIdle /\ SummaryIdle /\ GitIdle /\ ExecIdle /\ TraceIdle
PanelSpecNext == PanelPrompt \/ PanelClearMemory
PanelSpec == PanelSpecInit /\ [][PanelSpecNext]_vars

\* BasicAgent.generateCompletion calls of either copy of the class.
AgentSpecInit ==
  /\ AgentInit /\ CMIdle /\ ConfigIdle /\ PolicyIdle /\ ToolsIdle /\ ProcIdle
  /\ ParseIdle /\ TurnIdle /\ WorkflowIdle /\ IntentIdle /\ PanelIdle
  /\ CatalogIdle /\ SummaryIdle /\ GitIdle /\ ExecIdle /\ TraceIdle
AgentSpecNext == GenerateCompletion \/ FetchRejects \/ FetchResolves \/ ReadResponse
AgentSpec == AgentSpecInit /\ [][AgentSpecNext]_vars

\* Summarizations that take effect, one after another, on the summary as text.
SummarySpecInit ==
  /\ SummaryInit /\ CMIdle /\ ConfigIdle /\ PolicyIdle /\ ToolsIdle
  /\ ProcIdle /\ ParseIdle /\ TurnIdle /\ WorkflowIdle /\ IntentIdle
  /\ PanelIdle /\ AgentIdle /\ CatalogIdle /\ GitIdle /\ ExecIdle
  /\ TraceIdle
SummarySpecNext == SummaryTakesEffect
SummarySpec == SummarySpecInit /\ [][SummarySpecNext]_vars

\* git_commit followed through its child processes.
GitSpecInit ==
  /\ CMIdle /\ ConfigIdle /\ PolicyIdle /\ ProcIdle /\ ParseIdle /\ TurnIdle
  /\ WorkflowIdle /\ IntentIdle /\ PanelIdle /\ AgentIdle /\ CatalogIdle
  /\ SummaryIdle /\ GitIdle /\ workspaceOpen \in BOOLEAN /\ files = {}
  /\ call = NoCall /\ ExecIdle /\ TraceIdle
GitSpecNext == GitCommit \/ AddEnds \/ CommitEnds
GitSpec == GitSpecInit /\ [][GitSpecNext]_vars

\* executeWorkflow calls on the event loop.
ExecSpecInit ==
  /\ ExecInit /\ ConfigIdle /\ PolicyIdle /\ ToolsIdle /\ ProcIdle
  /\ ParseIdle /\ TurnIdle /\ WorkflowIdle /\ IntentIdle /\ PanelIdle
  /\ AgentIdle /\ CatalogIdle /\ SummaryIdle /\ GitIdle /\ TraceIdle
ExecSpecNext == ExecNext
ExecSpec == ExecSpecInit /\ [][ExecSpecNext]_vars

\* ------------------------------------------------------------ properties
AppendOps == {"addMessage", "addToolResult"}
LimitChars == hardMaxTokens * 5
IsSuffixOf(s, t) ==
  Len(s) <= Len(t) /\ s = SubSeq(t, Len(t) - Len(s) + 1, Len(t))

C2_EvictionKeepsEightNewest ==
  lastOp \in AppendOps =>
    /\ Len(afterAppend) >= 8 => Len(messages) >= 8
    /\ IsSuffixOf(messages, afterAppend)

\* C2 witness: an addMessage whose eviction was stopped by the floor of 8 while
\* the total was still above the ceiling.
C2_Witness ==
  /\ lastOp = "addMessage"
  /\ Len(afterAppend) > 8
  /\ Len(messages) = 8
  /\ TotalChars(messages) > LimitChars

\* C3: in every reachable state the conversation summary is at most 1600
\* characters long.
C3_SummaryWithinCap == conversationSummary <= 1600

\* C4: the string getOptimizedContext returns has an estimated token count
\* (ceil(length / 4)) of at most targetContextTokens.
C4_ContextWithinBudget ==
  lastOp = "getOptimizedContext" => (ctx + 3) \div 4 <= targetContextTokens

\* A ToolResult's error is a string with at least one character.
HasErrorText(result) == result.error # Absent /\ result.error # ""

\* C5: the promise ToolRegistry.call returns is never rejected: it resolves,
\* with ok=false and an error string when the tool is unknown or the handler
\* threw, and with the handler's own result otherwise.
C5_CallNeverRejects ==
  call.settled # "none" =>
    /\ call.settled = "resolved"
    /\ call.handler \in {"unregistered", "threw"} =>
         ~call.result.ok /\ call.result.error # Absent
    /\ call.handler = "returned" => call.result = call.handlerResult

\* C5 witness: a registered handler threw and the call resolved with ok=false.
C5_Witness ==
  /\ call.handler = "threw"
  /\ call.settled = "resolved"
  /\ ~call.result.ok

\* C6: every ok=false ToolResult, from the registry or from a handler, carries
\* a non-empty error string.
C6_FailureHasError ==
  /\ (call.settled = "resolved" /\ ~call.result.ok) => HasErrorText(call.result)
  /\ (call.handler = "returned" /\ ~call.handlerResult.ok)
       => HasErrorText(call.handlerResult)

\* C6 witness: a git command failed without writing to stderr and the result
\* carries the text of the exec error.
C6_Witness ==
  /\ call.name \in {"git_status", "git_commit", "git_revert"}
  /\ call.handler = "returned"
  /\ ~call.result.ok
  /\ call.result.error = "Error: Command failed"

\* Path p is the entry or lies beneath it, segment by segment.
AtOrBeneath(p, entry) == IsPrefixSeq(Segments(entry), Segments(p))

DeniedLocation(loc) == \E d \in deniedPaths : IsPrefixSeq(PathJoin(d), loc)
WriteTools == {"write_file", "apply_patch", "delete_path"}

\* C9: no call to write_file, apply_patch or delete_path writes or deletes at
\* a location at or beneath a deniedPaths entry, however the path argument is
\* spelled.
C9_DeniedNeverTouched ==
  (call.name \in WriteTools /\ call.result.ok) =>
    \A i \in DOMAIN call.ops :
      call.ops[i].op \in {"writeFile", "delete"} => ~DeniedLocation(call.ops[i].loc)

\* The call's path argument is one isPathAllowed rejects.
PolicyRejects ==
  /\ call.name \in WriteTools
  /\ call.argsGiven
  /\ call.settled # "none"
  /\ ~isPathAllowed(call.path, allowedPaths, deniedPaths)

\* C10 as stated: when isPathAllowed rejects the path argument the handler
\* returns ok=false with error 'Path not allowed by policy' before any
\* file-system operation.
C10_PolicyRejectionError ==
  PolicyRejects =>
    /\ call.handler = "returned"
    /\ ~call.result.ok
    /\ call.result.error = "Path not allowed by policy"
    /\ call.ops = <<>>

\* The error of the required-argument check that comes before the policy check.
RequiredArgumentError ==
  IF call.path = <<>> THEN "path is required"
  ELSE IF call.name = "write_file" /\ call.content = "" THEN "content is required"
  ELSE IF call.name = "apply_patch" /\ call.content = "" THEN "newContent is required"
  ELSE Absent

\* C10 amended: when isPathAllowed rejects the path argument the handler
\* returns ok=false before any file-system operation; the error is that of a
\* failed required-argument check (path, content, newContent) when there is
\* one, and 'Path not allowed by policy' otherwise.
C10_PolicyRejectionAfterRequired ==
  PolicyRejects =>
    /\ call.handler = "returned"
    /\ ~call.result.ok
    /\ call.ops = <<>>
    /\ call.result.error = IF RequiredArgumentError # Absent
                           THEN RequiredArgumentError
                           ELSE "Path not allowed by policy"

\* C10 witness: a write to a denied path with content given was turned down
\* with the policy error and no file-system operation.
C10_Witness ==
  /\ PolicyRejects
  /\ call.name = "write_file"
  /\ call.content # ""
  /\ \E d \in deniedPaths : AtOrBeneath(normalizeRelPath(call.path), d)
  /\ call.result.error = "Path not allowed by policy"
  /\ call.ops = <<>>

\* C11: in every interleaving of the timer, the data events and the close event
\* the promise's resolve function is invoked at most once during one
\* run_command invocation (exactly once when it has settled).
C11_ResolveInvokedOnce == resolveCalls <= 1

\* C12: once the timer has fired the child has been sent SIGKILL and the
\* promise holds {ok:false, error:'timeout after Ns', output: stdout captured
\* up to that moment}, N = timeoutSec ?? commandTimeoutSec ?? 300, and it keeps
\* that value through every later event (the close of the killed child).
C12_TimeoutResultStands ==
  timer = "fired" =>
    /\ killSent
    /\ promise.state = "fulfilled"
    /\ promise.value =
         [ok |-> FALSE, output |-> outAtTimeout,
          error |-> "timeout after "
                      \o ToString(IF runArgs.timeoutSec # Undefined
                                  THEN runArgs.timeoutSec
                                  ELSE IF runArgs.cfgTimeoutSec # Undefined
                                       THEN runArgs.cfgTimeoutSec
                                       ELSE 300)
                      \o "s",
          meta |-> <<>>]

\* C12 witness: the timer fired with some stdout captured, more stdout came,
\* the killed child closed, and the close handler has called resolve.
C12_Witness ==
  /\ timer = "fired"
  /\ child = "closed" /\ childCode = "null"
  /\ outAtTimeout # "" /\ out # outAtTimeout
  /\ resolveCalls = 2
  /\ promise.value.error = "timeout after 1s"

\* C13: every run_command invocation that spawned a child eventually settles
\* its promise, whatever the child does.
C13_EventuallyResolves == (runPc = "pending") ~> (promise.state = "fulfilled")

\* C13 witness: the child never exited, the spawn having succeeded, and the
\* promise was settled by the timer.
C13_Witness ==
  /\ runPc = "pending"
  /\ child = "alive"
  /\ timer = "fired"
  /\ promise.state = "fulfilled"

\* Every matching line of the files, in file order then line order.
RECURSIVE MatchesIn(_, _)
MatchesIn(uris, query) ==
  IF uris = <<>> THEN <<>>
  ELSE LET f     == Head(uris)
           lines == Lines(f.content)
           hits  == SelectSeq([i \in 1..Len(lines) |->
                                 [file |-> f.loc, line |-> i, text |-> lines[i]]],
                              LAMBDA m : RegexTest(query, m.text))
       IN hits \o MatchesIn(Tail(uris), query)

\* C14: search_in_workspace returns min(maxResults, number of matching lines)
\* matches (maxResults defaults to 200), in file order then line order, and
\* reads no file after the one in which the count reached maxResults.
C14_SearchReturnsFirstMatches ==
  (call.name = "search_in_workspace" /\ call.handler = "returned" /\ call.result.ok) =>
    LET uris  == IF workspaceOpen THEN SetToSeq(files) ELSE <<>>
        limit == IF call.num = Undefined THEN 200 ELSE call.num
        reads == Len(call.ops)
    IN /\ call.result.meta = Take(MatchesIn(uris, call.content), limit)
       /\ reads > 0 => Len(MatchesIn(SubSeq(uris, 1, reads - 1), call.content)) < limit

\* C15: a GeneratedProject serialized with JSON.stringify between the two tags
\* is parsed back to an equal project.
C15_TaggedRoundTrip == (parsePc = "done" /\ replyKind = "tagged") => parsed = sent

\* C16: a JSON object with a files array embedded in prose (no tags, no
\* fences) is the object parseProjectFromAnyText returns.
C16_ProseObjectRecovered == (parsePc = "done" /\ replyKind = "prose") => parsed = sent

\* C17: in one chat turn the repair completion is issued at most once, and
\* only when the first parse gives no payload with a non-empty files array;
\* when the repaired reply fails too, there is no further model call, nothing
\* is handed to the writer or written, and the one message shown ends with
\* the raw first reply, unchanged.
C17_OneRepairThenRaw ==
  /\ repairCalls <= 1
  /\ repairCalls = 1 => ~hasFiles(parseProjectFromAnyText(response))
  /\ (turnPc = "done" /\ repaired # <<>>
        /\ ~hasFiles(parseProjectFromAnyText(repaired)))
       => /\ repairCalls = 1
          /\ writerCalls = 0 /\ written = <<>> /\ terminal = <<>>
          /\ shown = <<Message(UnparsedNotice \o response)>>
\* C17 witness: a turn has ended after a repaired reply that did not parse
\* either, and the raw first reply was shown.
C17_Witness ==
  /\ turnPc = "done" /\ repairCalls = 1
  /\ response = <<"Sorry">> /\ repaired = <<"Sorry">>
  /\ shown = <<Message(UnparsedNotice \o <<"Sorry">>)>>

\* C18: every path handed to writeFilesPayload is non-empty, does not start
\* with a slash or a backslash, and holds no backslash.
C18_HandedPathsRelative ==
  writerCalls > 0 =>
    \A i \in DOMAIN payload.files :
      LET p == payload.files[i].path IN
        /\ p # <<>>
        /\ Head(p) \notin {"/", "\\"}
        /\ \A j \in DOMAIN p : p[j] # "\\"

\* C19: on a workflow constructed without a ToolRegistry or without an
\* orchestrator, every runGoal call is rejected in the step of the call with
\* the configuration error, and no step invokes a tool, calls the progress
\* callback, retrieves context, or changes the ContextManager's messages or
\* summary.
C19_UnconfiguredRejects ==
  [][~(hasTools /\ hasOrchestrator) =>
       /\ goals' # goals => goalResult' = Rejected(ConfigError)
       /\ UNCHANGED <<toolCalls, progressLines, retrievals, messages,
                      conversationSummary>>]_vars
\* C19 witness: two runGoal calls were made on a workflow that has a
\* ToolRegistry and no orchestrator, over a non-empty history.
C19_Witness ==
  /\ hasTools /\ ~hasOrchestrator /\ goals = 2
  /\ goalResult = Rejected(ConfigError)
  /\ messages # <<>>

\* C20: when runGoal has completed, the addMessage calls of the replay are
\* the transcript's messages one for one, in order, with the same role and
\* the content as text (a structured content serialized); the messages of
\* the replay still in history are a tail of the transcript and the end of
\* the history.
C20_TranscriptReplayed ==
  (wfPc = "ready" /\ goalResult = Fulfilled) =>
    LET textLen(c) == IF c.isString THEN c.len ELSE c.json
        expected == [i \in 1..Len(transcript) |->
                       Msg(transcript[i].role, textLen(transcript[i].content),
                           replayFrom + i - 1)]
        kept == SelectSeq(messages, LAMBDA m : m.id >= replayFrom)
    IN /\ addCalls = [i \in 1..Len(transcript) |-> <<expected[i].role, expected[i].len>>]
       /\ IsSuffixOf(kept, expected)
       /\ IsSuffixOf(kept, messages)
\* C20 witness: a run has completed whose transcript of nine messages was
\* replayed and whose first message has been evicted since; and a run whose
\* transcript holds structured content has completed.
C20_Witness ==
  /\ wfPc = "ready" /\ goalResult = Fulfilled
  /\ \/ /\ transcript = LongTranscript
        /\ Len(messages) = 8
        /\ messages[1].id = replayFrom + 1
     \/ /\ Len(transcript) = 2
        /\ Len(messages) >= 2
        /\ messages[Len(messages)].len = 4100

\* C21: analyzeIntent returns the first intent of the table, in the order
\* codeReview, bugFinder, testGen, refactor, documentation, optimization, one
\* of whose keywords occurs in the lower-cased query, and general when none
\* does.
Intents ==
  <<"codeReview", "bugFinder", "testGen", "refactor", "documentation", "optimization">>
HitsIntent(i, lowered) ==
  \E j \in DOMAIN intentKeywords[i].keywords :
    includes(lowered, intentKeywords[i].keywords[j])
C21_FirstMatchingIntent ==
  intent # "" =>
    LET lowered == toLowerCase(intentQuery) IN
    /\ \A i \in DOMAIN Intents :
         intent = Intents[i] <=>
           (HitsIntent(i, lowered) /\ \A h \in 1..(i - 1) : ~HitsIntent(h, lowered))
    /\ intent = "general" <=> \A i \in DOMAIN Intents : ~HitsIntent(i, lowered)
\* C21 witness: each of the six intents, and general, has been returned, and
\* the latest query matched keywords of two intents.
C21_Witness ==
  /\ returned = {Intents[i] : i \in DOMAIN Intents} \cup {"general"}
  /\ intentQuery = "explain the fast path"
  /\ intent = "documentation"

\* C22: summarizeConversation called while the history holds fewer messages than
\* summarizeMinMessages changes nothing: the message list and the summary after
\* the call are the ones before it, so a second call leaves the summary
\* unchanged again.
C22_BelowMinimumIsNoOp ==
  [][(lastOp' = "summarizeConversation" /\ Len(messages) < summarizeMinMessages)
       => (messages' = messages /\ conversationSummary' = conversationSummary)]_vars

\* C22 witness: summarizeConversation has returned on a history of 6 to 9
\* messages, more than a summarization leaves behind and fewer than the
\* minimum, whose window of user and assistant messages was large enough to
\* summarize, with a summary in place.
C22_Witness ==
  /\ lastOp = "summarizeConversation"
  /\ Len(messages) > Max(KeepFloor, recentHistoryCount \div 2)
  /\ Len(messages) < summarizeMinMessages
  /\ Len(UserAssistantOnly(messages)) >= MinWindow
  /\ conversationSummary > 0

\* C23: once the chat panel has handled 'clearMemory', the persisted chat memory
\* is empty and the ContextManager used for later prompts holds no messages and
\* an empty summary; the context built for a following prompt contains no
\* message of a turn that preceded the clear.
C23_ClearResetsContext ==
  /\ panelOp = "clearMemory" =>
       /\ storedConversation = <<>>
       /\ messages = <<>>
       /\ conversationSummary = 0
  /\ panelOp = "prompt" =>
       \A i \in 1..Len(promptHistory) : promptHistory[i].id >= clearedAt

\* The failure falls in one of the cases the catch block answers with a fixed
\* message.
Classified(build, caught) ==
  IF build = "fetch"
  THEN \E k \in {"fetch failed", "ENOTFOUND", "401", "429"} : includes(caught.message, k)
  ELSE \/ caught.name = "AbortError"
       \/ \E k \in {"ENOTFOUND", "getaddrinfo", "ECONNREFUSED", "401", "403", "407"} :
            includes(messageOrError(caught), k)

\* Reading the response cannot give a completion: the status is not ok or the
\* body holds no choice.
ResponseFails(res) ==
  \/ res.status # "200"
  \/ res.kind \in {"textFails", "badJson", "noChoices", "noMessage", "null"}

\* C24: a generateCompletion call whose provider call failed (fetch rejected,
\* the response was not ok, or its body gave no completion) settles rejected,
\* never fulfilled; when the failure is none of the classified cases, the
\* rejection's message contains the message of the underlying error.
C24_FailureRejects ==
  agentPc = "settled" =>
    /\ (agentCause # NoCause \/ ResponseFails(agentResponse)) =>
         /\ completion.state = "rejected"
         /\ agentCause # NoCause
         /\ ~Classified(agentBuild, agentCause) =>
              includes(completion.value, agentCause.message)
    /\ completion.state = "fulfilled" =>
         agentCause = NoCause /\ ~ResponseFails(agentResponse)

\* C24 witness: BasicAgent.ts settled a call whose fetch rejected with "Mock
\* error", an unclassified failure, by rejecting with the wrapped message.
C24_Witness ==
  /\ agentBuild = "fetch"
  /\ agentPc = "settled"
  /\ agentCause = [name |-> "Error", message |-> "Mock error"]
  /\ completion = [state |-> "rejected", value |-> "Failed to generate code: Mock error"]

\* C25: the catalog runGoal hands to the orchestrator is in sync with the
\* registry built at activation: the set of its names is the set of registered
\* tool names, and it is the same list on every call.
C25_CatalogMatchesRegistry ==
  wfPc = "loop" =>
    /\ {toolSpecs[i] : i \in 1..Len(toolSpecs)} = RegisteredTools
    /\ toolSpecs = buildToolSpecs

\* C26: the retained list is always a contiguous suffix of the messages
\* appended so far, in call order.  Messages are numbered in the order they
\* enter the list (the hydrated history first, a list given to setHistory
\* counted as appended), so the retained list is exactly the messages numbered
\* nextId - Len(messages) to nextId - 1, in that order.
C26_RetainedIsSuffixOfAppended ==
  \A i \in 1..Len(messages) : messages[i].id = nextId - Len(messages) + i - 1

\* C26 witness: after appends, a summarization has cut the list to its last 5
\* messages and dropped older ones.
C26_Witness ==
  /\ lastOp = "summarizeConversation"
  /\ inputs > 0
  /\ Len(messages) = KeepFloor
  /\ messages[1].id > 1
  /\ messages[KeepFloor].id = nextId - 1

\* Length of the old trimmed summary joined with the digest by a blank line
\* (of the digest alone when the old summary is all white space).
JoinedTextLen(a, b) == IF a = <<>> THEN TextLen(b) ELSE TextLen(a) + 2 + TextLen(b)

\* C27: a summarization that takes effect on a non-empty summary leaves a
\* non-empty summary that starts with the old summary, trimmed; when the merged
\* text is longer than 1200 characters and is clipped, it starts with the first
\* 1160 characters of the old trimmed summary (all of it when it is shorter).
C27_OldSummaryKeptAtFront ==
  (summaries > 0 /\ previousSummary # <<>>) =>
    /\ summaryText # <<>>
    /\ IF JoinedTextLen(trimText(previousSummary), lastDigest) <= SummaryClip
       THEN startsWith(summaryText, trimText(previousSummary))
       ELSE /\ startsWith(summaryText,
                          TextSlice(trimText(previousSummary), SummaryClip - ClipSlack))
            /\ summaryText[Len(summaryText)] = Marker[1]

\* C27 witness: a summary of 1700 characters was merged with a digest and the
\* result clipped to the first 1160 characters of the old summary and the
\* truncation marker.
C27_Witness ==
  /\ summaries = 1
  /\ previousSummary = <<Seg("initial", 0, 1, 1700)>>
  /\ summaryText = <<Seg("initial", 0, 1, 1160)>> \o Marker

\* The last n elements of s, all of s when it has no more than n.
LastN(s, n) == IF Len(s) <= n THEN s ELSE SubSeq(s, Len(s) - n + 1, Len(s))

\* summarizeConversation is about to take effect: the list is at least
\* summarizeMinMessages long and its window holds at least 4 user and
\* assistant messages.
TakesEffect ==
  /\ Len(messages) >= summarizeMinMessages
  /\ Len(SliceLast(UserAssistantOnly(messages), WindowSize)) >= MinWindow

\* C28 as stated: a summarizeConversation call that takes effect leaves exactly
\* the last floor(recentHistoryCount / 2) messages of the list (all of them if
\* there were fewer).
C28_KeepsHalfWindow ==
  [][(lastOp' = "summarizeConversation" /\ TakesEffect)
       => messages' = LastN(messages, recentHistoryCount \div 2)]_vars

\* C28 amended: a summarizeConversation call that takes effect leaves exactly
\* the last max(5, floor(recentHistoryCount / 2)) messages of the list (all of
\* them if there were fewer).
C28_KeepsHalfWindowAtLeastFive ==
  [][(lastOp' = "summarizeConversation" /\ TakesEffect)
       => messages' = LastN(messages, Max(KeepFloor, recentHistoryCount \div 2))]_vars

\* C28 witness: with a recent-history window of 8, a summarization has cut a
\* longer list to 5 messages, one more than half the window.
C28_Witness ==
  /\ lastOp = "summarizeConversation"
  /\ recentHistoryCount = DefaultRecentHistoryCount
  /\ Len(messages) = recentHistoryCount \div 2 + 1
  /\ messages[1].id > 1

\* The first string getOptimizedContext assembles for a query and retrieved
\* snippets of the given lengths.
FirstAssembled(q, rag) ==
  Assemble(rag, conversationSummary, getRecentHistory(messages, recentHistoryCount), q)

\* One getOptimizedContext call for (q, rag) as the claim describes it, the
\* tighter rebuild taking the last n messages: over the target, the state after
\* is the state after one summarizeConversation call and the returned string
\* is built from it; otherwise the first string is returned and the list and
\* the summary are unchanged.
ContextCallAsClaimed(q, rag, n) ==
  IF estimateTokens(FirstAssembled(q, rag)) > targetContextTokens
  THEN /\ messages' = summarizeConversation(messages, conversationSummary,
                          recentHistoryCount, summarizeMinMessages).messages
       /\ conversationSummary' = summarizeConversation(messages, conversationSummary,
                          recentHistoryCount, summarizeMinMessages).summary
       /\ ctx' = Assemble(rag, conversationSummary', LastN(messages', n), q)
  ELSE /\ ctx' = FirstAssembled(q, rag)
       /\ UNCHANGED <<messages, conversationSummary>>

\* C29 as stated: over the target, getOptimizedContext summarizes once and
\* rebuilds the string with the last floor(recentHistoryCount / 2) messages of
\* the history after summarization; under it, nothing is summarized and the
\* state is unchanged.
C29_RebuildsWithHalfWindow ==
  [][lastOp' = "getOptimizedContext" =>
       \E q \in QueryLens, rag \in RagLens :
         ContextCallAsClaimed(q, rag, recentHistoryCount \div 2)]_vars

\* C29 amended: the rebuild takes the last max(3, floor(recentHistoryCount / 2))
\* messages of the history after summarization.
C29_RebuildsWithHalfWindowAtLeastThree ==
  [][lastOp' = "getOptimizedContext" =>
       \E q \in QueryLens, rag \in RagLens :
         ContextCallAsClaimed(q, rag, Max(TightFloor, recentHistoryCount \div 2))]_vars

\* C29 witness: with a recent-history window of 4, getOptimizedContext has
\* returned a string built from the summary and the last 3 of the 5 messages a
\* summarization left.
C29_Witness ==
  /\ lastOp = "getOptimizedContext"
  /\ recentHistoryCount = 4
  /\ Len(messages) = KeepFloor
  /\ conversationSummary > 0
  /\ \E q \in QueryLens, rag \in RagLens :
       /\ ctx = Assemble(rag, conversationSummary, LastN(messages, TightFloor), q)
       /\ estimateTokens(ctx) > targetContextTokens

PathTools == {"read_file", "write_file", "apply_patch", "delete_path", "list_files"}

\* C30: every handler that takes a workspace path enforces the path policy:
\* called with a path isPathAllowed rejects (at or under a denied entry, or
\* outside a non-empty allowed set), read_file, write_file, apply_patch,
\* delete_path and list_files return ok=false and issue no file-system
\* operation.
C30_PathToolsEnforcePolicy ==
  ( /\ call.name \in PathTools
    /\ call.argsGiven
    /\ call.settled # "none"
    /\ call.path # <<>>
    /\ ~isPathAllowed(call.path, allowedPaths, deniedPaths) )
  => (~call.result.ok /\ call.ops = <<>>)

\* ------------------------------------------------------------------ C31
\* The host file system failed in the last call: the handler issued an
\* operation and returned the error the host threw.
IoFailed ==
  /\ call.ops # <<>>
  /\ ~call.handlerResult.ok
  /\ call.handlerResult.error \in {ErrorToString(IoError), ErrorToString(NotFoundError)}

\* The last call was write_file with a path the policy allows, a workspace
\* open and no failure of the host file system.
WriteFileCase ==
  /\ call.name = "write_file"
  /\ call.argsGiven
  /\ call.path # <<>>
  /\ isPathAllowed(call.path, allowedPaths, deniedPaths)
  /\ workspaceOpen
  /\ ~IoFailed

WroteContent ==
  /\ call.result.ok
  /\ FileAt(files, PathJoin(normalizeRelPath(call.path)))
       = {[loc |-> PathJoin(normalizeRelPath(call.path)), content |-> call.content]}

\* C31: for every policy-allowed path and every content string, the empty
\* string included, with a workspace open and file I/O succeeding, write_file
\* returns ok = true and the file at the path then holds exactly the content.
C31_WriteStoresContent == WriteFileCase => WroteContent

\* ------------------------------------------------------------------ C32
IsStart(k, cmd) == gitLog[k].ev = "started" /\ gitLog[k].cmd = cmd
IsEnd(k, cmd) == gitLog[k].ev = "ended" /\ gitLog[k].cmd = cmd

\* C32: in every git_commit execution with a message and an open workspace,
\* 'git add -A' is started and has ended before 'git commit' is started, and
\* the ToolResult returned is that of the commit command.
C32_AddCompletesBeforeCommit ==
  (gitPc # "idle" /\ gitMessage # "" /\ workspaceOpen) =>
    /\ gitLog # <<>> /\ IsStart(1, AddCommand)
    /\ \A k \in 1..Len(gitLog) :
         IsStart(k, CommitCommand(gitMessage)) =>
           \E i \in 1..(k - 1) : \E j \in (i + 1)..(k - 1) :
             IsStart(i, AddCommand) /\ IsEnd(j, AddCommand)
    /\ gitPc = "done" =>
         /\ Len(gitLog) = 4
         /\ IsStart(3, CommitCommand(gitMessage))
         /\ IsEnd(4, CommitCommand(gitMessage))
         /\ gitRet = sh(gitLog[4].env)

\* C32 witness: a call whose 'git add -A' failed and whose commit succeeded
\* has returned the commit's result.
C32_Witness ==
  /\ gitPc = "done" /\ gitMessage # "" /\ workspaceOpen
  /\ Len(gitLog) = 4
  /\ gitLog[2].env.failed /\ ~gitLog[4].env.failed
  /\ gitRet.ok

\* ------------------------------------------------------------------ C33
\* What getOptimizedContext returns for the call from the history as it was
\* when the call was made.
ContextBefore(c) ==
  getOptimizedContext(flows[c].before.messages, flows[c].before.summary,
                      recentHistoryCount, summarizeMinMessages, targetContextTokens,
                      flows[c].query, flows[c].ragLen)

\* The call returned its prompt and no other call ran during it.
Succeeded(c) ==
  /\ flows[c].pc = "done" /\ flows[c].settled = "resolved" /\ flows[c].errorText = ""
  /\ flows[c].alone

\* C33: within one successful executeWorkflow call the context is built from
\* the history as it was before the call, then the user message is appended,
\* then the prompt is produced and appended as an assistant message, and
\* summarizeConversation is invoked after both appends and only if
\* shouldSummarize() is true at that point.
C33_StepsInOrder ==
  \A c \in 1..MaxFlows :
    /\ (flows[c].alone /\ flows[c].userId # 0) =>
         /\ flows[c].ctxLen = ContextBefore(c).ctx
         /\ flows[c].asstId # 0 => flows[c].userId < flows[c].asstId
    /\ (flows[c].asstId # 0 \/ flows[c].summarized) => flows[c].userId # 0
    /\ flows[c].summarized => flows[c].asstId # 0
    /\ Succeeded(c) =>
         /\ flows[c].promptLen = executeGeneralQuery(flows[c].query, flows[c].ctxLen)
         /\ flows[c].afterAppends =
              workflowAppends(ContextBefore(c), flows[c].query, flows[c].userId,
                              hardMaxTokens)
         /\ flows[c].summarized = shouldSummarize(flows[c].afterAppends, hardMaxTokens)

\* C33 witness: a call that ran alone returned its prompt after rebuilding an
\* over-budget context and summarizing at the end.
C33_Witness ==
  \E c \in 1..MaxFlows :
    /\ Succeeded(c)
    /\ ContextBefore(c).over
    /\ flows[c].summarized
    /\ Len(messages) < Len(flows[c].afterAppends)

\* ------------------------------------------------------------------ C34
\* The call has caught something thrown by intent analysis, retrieval, context
\* building, the prompt builder or summarization.
Failed(c) == flows[c].pc = "done" /\ flows[c].errorText # ""

\* C34: executeWorkflow never rejects: whatever throws inside it, the call
\* resolves, and a call in which something threw resolves to the text
\* 'Sorry, I encountered an error: ' followed by the error's message (or
\* 'Unknown error').
C34_WorkflowNeverRejects ==
  \A c \in 1..MaxFlows :
    /\ flows[c].settled # "rejected"
    /\ flows[c].pc = "done" =>
         /\ flows[c].settled = "resolved"
         /\ Caught(c) =>
              flows[c].errorText \in
                { "Sorry, I encountered an error: " \o
                    (IF e.message # "" THEN e.message ELSE "Unknown error") :
                  e \in {flows[c].thrown} }
         /\ ~Caught(c) => flows[c].errorText = ""
    /\ (Caught(c) /\ microtasks = <<>>) => flows[c].pc = "done"

\* C34 witness: the prompt builder threw after the user message was added and
\* the call resolved to the error text.
C34_Witness ==
  \E c \in 1..MaxFlows :
    /\ Failed(c) /\ flows[c].settled = "resolved"
    /\ flows[c].userId # 0 /\ flows[c].asstId = 0
    /\ flows[c].thrown.message = ""

\* ------------------------------------------------------------------ C35
Positions(ev) == {i \in 1..Len(goalEvents) : goalEvents[i] = ev}
Precedes(ev, later) == \A j \in Positions(later) : \E i \in Positions(ev) : i < j

\* C35: in every runGoal execution with tools and orchestrator configured,
\* 'Agent started' is emitted before the orchestrator's loop is invoked,
\* 'Agent finished.' is emitted only after the loop has returned and before
\* any transcript message is replayed into the history, the loop is invoked
\* exactly once, and if it throws, 'Agent finished.' is not emitted and the
\* history receives no transcript message.
C35_ProgressAroundLoop ==
  goalEvents # <<>> =>
    /\ Cardinality(Positions(LoopInvoked)) = 1
    /\ Precedes(StartedLine, LoopInvoked)
    /\ Precedes(LoopReturned, FinishedLine)
    /\ Precedes(FinishedLine, AddMessageCall)
    /\ Cardinality(Positions(FinishedLine)) <= 1
    /\ Positions(LoopThrew) # {} =>
         /\ Positions(FinishedLine) = {} /\ Positions(AddMessageCall) = {}
         /\ goalResult = Rejected(LoopError)
    /\ Positions(LoopReturned) # {} =>
         /\ Positions(FinishedLine) # {}
         /\ Cardinality(Positions(AddMessageCall)) = Len(addCalls)
         /\ goalResult = Fulfilled

\* C35 witness: a loop returned a transcript that was replayed after the
\* closing progress line.
C35_Witness ==
  /\ goalResult = Fulfilled
  /\ Cardinality(Positions(AddMessageCall)) >= 2
  /\ Cardinality(Positions(AddMessageCall)) = Len(transcript)

\* ------------------------------------------------------------------ C36
\* C36: a tier of the parse cascade succeeds only with a payload whose files
\* is a non-empty array: parseProjectFromAnyText never returns a project whose
\* files array is empty.
C36_NeverEmptyFiles ==
  (parsePc = "done" /\ parsed # NullProject) => parsed.files # <<>>

\* ------------------------------------------------------------------ C37
\* The post-install and start commands among what was sent to the terminal.
SentCommands == SelectSeq(terminal, LAMBDA line : line # CdLine)
Shown(notice) == \E i \in DOMAIN shown : shown[i] = Message(notice)
ShownUnparsed == \E i \in DOMAIN shown : shown[i] = Message(UnparsedNotice \o response)
HasCommand(opt) == opt.has /\ Trim(opt.text) # <<>>

\* C37: in a chat turn, files are written only for a parsed payload with a
\* non-empty files array, and the post-install and start commands are sent to
\* the terminal only after writeFilesPayload has completed successfully,
\* postInstall before start; if parsing fails or writing fails, no command is
\* sent.
C37_CommandsAfterWrite ==
  /\ (written # <<>> \/ writerCalls > 0) =>
       (project.some /\ project.files # <<>> /\ Len(payload.files) = Len(project.files))
  /\ terminal # <<>> =>
       /\ turnPc = "done"
       /\ Len(written) = Len(payload.files)
       /\ Shown(WrittenNotice) /\ ~Shown(FailedNotice)
  /\ (turnPc = "done" /\ Shown(WrittenNotice)) =>
       SentCommands =
         (IF HasCommand(payload.postInstall) THEN <<Trim(payload.postInstall.text)>> ELSE <<>>)
         \o (IF HasCommand(payload.start) THEN <<Trim(payload.start.text)>> ELSE <<>>)
  /\ (Shown(FailedNotice) \/ ShownUnparsed \/ Shown(ErrorNotice)) => terminal = <<>>
  /\ turnPc \in {"replied", "repairing", "writing", "written"} => terminal = <<>>

\* C37 witness: a payload with both commands was written and both commands
\* were sent, postInstall first.
C37_Witness ==
  /\ turnPc = "done"
  /\ Len(SentCommands) = 2
  /\ SentCommands[1] = Trim(payload.postInstall.text)
  /\ SentCommands[2] = Trim(payload.start.text)
  /\ SentCommands[1] # SentCommands[2]
  /\ written # <<>>

\* ------------------------------------------------------------------ C38
DefaultTunables ==
  /\ recentHistoryCount = DefaultRecentHistoryCount
  /\ summarizeMinMessages = DefaultSummarizeMinMessages

\* C38: with the default tunables (recentHistoryCount 8, summarizeMinMessages
\* 10) summarizeConversation is idempotent: a call that changes anything leaves
\* fewer messages than summarizeMinMessages, and a call that directly follows
\* another summarizeConversation call, with no addMessage in between, changes
\* neither the summary nor the message list.
C38_SummarizeIdempotent ==
  [][(lastOp' = "summarizeConversation" /\ DefaultTunables) =>
       /\ (messages' # messages \/ conversationSummary' # conversationSummary)
            => Len(messages') < summarizeMinMessages
       /\ lastOp = "summarizeConversation"
            => (messages' = messages /\ conversationSummary' = conversationSummary)]_vars

\* C38 witness: under the default tunables a summarization has taken effect
\* and left the five newest messages, among them a window large enough to be
\* summarized again.
C38_Witness ==
  /\ lastOp = "summarizeConversation"
  /\ DefaultTunables
  /\ Len(messages) = KeepFloor
  /\ Len(UserAssistantOnly(messages)) >= MinWindow
  /\ conversationSummary > 0

\* ------------------------------------------------------------------ C39
\* Two executeWorkflow calls have been in flight at the same time.
Overlapped == \E c \in 1..MaxFlows : ~flows[c].alone

\* C39: when two executeWorkflow calls on the same AgenticWorkflow overlap,
\* the history still pairs turns correctly: each call's user message is
\* immediately followed by that same call's assistant message, in every
\* interleaving of the two calls.
C39_TurnsStayPaired ==
  \A c \in 1..MaxFlows :
    \A i \in 1..Len(messages) :
      (messages[i].id = flows[c].userId /\ flows[c].asstId # 0) =>
        (i < Len(messages) /\ messages[i + 1].id = flows[c].asstId)

====
